---- MODULE Spec2Model ----
(***************************************************************************)
(* Model of the Palma support service query path.  Two deployed copies of  *)
(* the query handler exist in the repository:                              *)
(*   "query_lambda"     src/query_lambda/app.py                            *)
(*   "query_processor"  src/lambda/query_processor/app.py                  *)
(* The variable `variant` selects which copy serves the requests of a      *)
(* behaviour.  Texts are TLA+ strings; the Python string operations the    *)
(* handlers use (lower, in, split, strip, startswith) are computed on them.*)
(***************************************************************************)
EXTENDS Integers, Sequences, FiniteSets, TLC

VARIABLES
    variant,        \* which copy of the handler is deployed
    tables,         \* names of the DynamoDB tables that exist
    faqTable,       \* FAQ table: sequence of items in scan order
    snapshots,      \* objects under EMBEDDINGS_PREFIX: [key, modified, body]
    queryLog,       \* query log table: function query_id -> log item
    inbox,          \* events still to be delivered to the handler
    pc,             \* position of the running invocation
    body,           \* parsed request body
    faq_matches,    \* result of search_faq_table
    query_embedding,\* result of get_embeddings
    search_results, \* result of the semantic searches
    response_text,  \* text chosen for the response
    source,         \* source field chosen for the response
    query_id,       \* value returned by log_query
    result,         \* the HTTP response returned by the handler
    trace,          \* calls made to the collaborators by this invocation
    resolved,       \* <<tier, source>> of every successful response so far
    call,           \* the latest direct call of a library function and its result
    memo,           \* the results of the direct calls made so far
    processed       \* objects under PROCESSED_PREFIX: [key, body]

vars == <<variant, tables, faqTable, snapshots, queryLog, inbox, pc, body,
          faq_matches, query_embedding, search_results, response_text,
          source, query_id, result, trace, resolved, call, memo, processed>>

None == "None"

-----------------------------------------------------------------------------
(* Python string operations *)

UpperAlpha == "ABCDEFGHIJKLMNOPQRSTUVWXYZ"
LowerAlpha == "abcdefghijklmnopqrstuvwxyz"

CharAt(s, i) == SubSeq(s, i, i)

LowerChar(c) ==
    IF \E i \in 1..Len(UpperAlpha) : CharAt(UpperAlpha, i) = c
    THEN CharAt(LowerAlpha, CHOOSE i \in 1..Len(UpperAlpha) : CharAt(UpperAlpha, i) = c)
    ELSE c

RECURSIVE Lower(_)
Lower(s) == IF Len(s) = 0 THEN "" ELSE LowerChar(CharAt(s, 1)) \o Lower(Tail(s))

\* Python `sub in s`
Contains(sub, s) ==
    \E i \in 0..(Len(s) - Len(sub)) : SubSeq(s, i + 1, i + Len(sub)) = sub

StartsWith(s, prefix) ==
    Len(prefix) <= Len(s) /\ SubSeq(s, 1, Len(prefix)) = prefix

IsSpace(c) == c \in {" ", "\n", "\t"}

\* Python set(s.split()): the maximal whitespace-free substrings
SplitWords(s) ==
    { SubSeq(s, i, j) : <<i, j>> \in
        { p \in (1..Len(s)) \X (1..Len(s)) :
            /\ p[1] <= p[2]
            /\ \A k \in p[1]..p[2] : ~IsSpace(CharAt(s, k))
            /\ (p[1] = 1 \/ IsSpace(CharAt(s, p[1] - 1)))
            /\ (p[2] = Len(s) \/ IsSpace(CharAt(s, p[2] + 1))) } }

RECURSIVE LStrip(_)
LStrip(s) == IF Len(s) > 0 /\ IsSpace(CharAt(s, 1)) THEN LStrip(Tail(s)) ELSE s

RECURSIVE RStrip(_)
RStrip(s) ==
    IF Len(s) > 0 /\ IsSpace(CharAt(s, Len(s)))
    THEN RStrip(SubSeq(s, 1, Len(s) - 1)) ELSE s

Strip(s) == RStrip(LStrip(s))

\* Python dict.get(field, default)
Get(item, field, default) ==
    IF field \in DOMAIN item THEN item[field] ELSE default

-----------------------------------------------------------------------------
(* Embedder: create_simple_embedding and get_embeddings.                    *)
(* An EmbeddingVector is [num, den2, kind]: component i is                  *)
(* num[i] / sqrt(den2), and kind is the Python type of the components,      *)
(* "float" (computed, or decoded from JSON) or "Decimal" (read from a       *)
(* DynamoDB table through the boto3 resource).                              *)
(* hashlib.sha256 is a library function; Sha256Hex stands for it as a fixed *)
(* function from strings to hex strings of DigestBytes bytes.               *)

DigestBytes == 1
EmbDim == 2

HexDigits == "0123456789abcdef"
CodeAlphabet == " abcdefghijklmnopqrstuvwxyz0123456789?_ABCDEFGHIJKLMNOPQRSTUVWXYZ"

CharCode(c) ==
    IF \E i \in 1..Len(CodeAlphabet) : CharAt(CodeAlphabet, i) = c
    THEN CHOOSE i \in 1..Len(CodeAlphabet) : CharAt(CodeAlphabet, i) = c
    ELSE 0

\* the characters are folded left to right; a text is folded by halves, the
\* left half first, to keep the evaluation shallow
RECURSIVE MixChars(_, _)
MixChars(s, acc) ==
    IF Len(s) = 0 THEN acc
    ELSE IF Len(s) = 1 THEN (acc * 31 + CharCode(s) + 7) % 65521
    ELSE CHOOSE r \in { MixChars(right, left) :
                          right \in {SubSeq(s, (Len(s) \div 2) + 1, Len(s))},
                          left \in {MixChars(SubSeq(s, 1, Len(s) \div 2), acc)} } : TRUE

HexByte(b) == CharAt(HexDigits, (b \div 16) + 1) \o CharAt(HexDigits, (b % 16) + 1)

RECURSIVE HexOfBytes(_, _, _)
HexOfBytes(s, i, n) ==
    IF i > n THEN "" ELSE HexByte(MixChars(s, i * 131) % 256) \o HexOfBytes(s, i + 1, n)

Sha256Hex(s) == HexOfBytes(s, 1, DigestBytes)

HexDigitValue(c) == (CHOOSE i \in 1..16 : CharAt(HexDigits, i) = c) - 1

\* int(hex_pair, 16)
HexPairValue(p) == 16 * HexDigitValue(CharAt(p, 1)) + HexDigitValue(CharAt(p, 2))

\* str(n) for a natural number n
RECURSIVE DecStr(_)
DecStr(n) ==
    IF n < 10 THEN CharAt(HexDigits, n + 1)
    ELSE DecStr(n \div 10) \o CharAt(HexDigits, (n % 10) + 1)

\* One pass over a digest: append (2*byte - 255), which is 255 * (byte/255*2 - 1),
\* for each hex pair until `dimension` values are collected.
RECURSIVE AppendSamples(_, _, _)
AppendSamples(values, hash_hex, dimension) ==
    IF Len(hash_hex) < 2 \/ Len(values) >= dimension THEN values
    ELSE AppendSamples(Append(values, 2 * HexPairValue(SubSeq(hash_hex, 1, 2)) - 255),
                       SubSeq(hash_hex, 3, Len(hash_hex)), dimension)

RECURSIVE ExtendSamples(_, _, _)
ExtendSamples(values, original_hash, dimension) ==
    IF Len(values) >= dimension THEN values
    ELSE ExtendSamples(
            AppendSamples(values, Sha256Hex(original_hash \o DecStr(Len(values))), dimension),
            original_hash, dimension)

SumSquares(v) ==
    LET RECURSIVE S(_)
        S(i) == IF i > Len(v) THEN 0 ELSE v[i] * v[i] + S(i + 1)
    IN S(1)

\* A call that may raise returns [exc, val]: exc is TRUE when it raised.
Raised == [exc |-> TRUE, val |-> <<>>]
Returned(v) == [exc |-> FALSE, val |-> v]

\* normalized = [v / norm for v in values]: raises ZeroDivisionError when the
\* norm is 0 and there is a value to divide.
Normalize(values) ==
    IF Len(values) > 0 /\ SumSquares(values) = 0 THEN Raised
    ELSE Returned([num |-> values, den2 |-> SumSquares(values), kind |-> "float"])

\* a plausible slip: each sample is truncated to an integer,
\* int(value * 2 - 1), which is 0 for every byte but 0 and 255
SamplesTruncated(hash_hex, dimension) ==
    [i \in 1..Len(ExtendSamples(AppendSamples(<<>>, hash_hex, dimension), hash_hex, dimension)) |->
        IF ExtendSamples(AppendSamples(<<>>, hash_hex, dimension), hash_hex, dimension)[i]
               \in {-255, 255}
        THEN ExtendSamples(AppendSamples(<<>>, hash_hex, dimension), hash_hex, dimension)[i]
        ELSE 0]

SamplesOf(hash_hex, dimension) ==
    ExtendSamples(AppendSamples(<<>>, hash_hex, dimension), hash_hex, dimension)

\* a plausible slip: the digest is salted with a value that changes per call
create_simple_embedding_salted(text, dimension) ==
    Normalize(SubSeq(SamplesOf(Sha256Hex(text \o DecStr(Cardinality(memo))), dimension),
                     1, dimension))

create_simple_embedding(text, dimension) ==
    Normalize(SubSeq(SamplesOf(Sha256Hex(text), dimension), 1, dimension))

\* get_embedding_anthropic: `outcome` is what the embedding service did,
\* [kind |-> "vector", vec |-> v], or another kind for an exception raised
\* inside it: "transport_error" and "access_denied" by invoke_model,
\* "no_embeddings" by the ValueError for a response without the embeddings.
get_embedding_anthropic(text, outcome) ==
    IF outcome.kind = "vector" THEN Returned(outcome.vec) ELSE Raised

\* a plausible slip: the fallback is computed from an empty text
FallbackOfEmptyText(primary, text) ==
    IF primary.exc THEN create_simple_embedding("", EmbDim) ELSE primary

\* a plausible slip: the failure of the embedding service is passed on
NoFallback(primary, text) == primary

FallbackIfRaised(primary, text) ==
    IF primary.exc THEN create_simple_embedding(text, EmbDim) ELSE primary

get_embeddings(text, outcome) ==
    FallbackIfRaised(get_embedding_anthropic(text, outcome), text)

-----------------------------------------------------------------------------
(* SimilarityScorer.  A similarity is [dot, mag2]: the value dot/sqrt(mag2). *)
(* Arithmetic is exact; floating-point rounding is not modelled.            *)

PadTo(v, n) == [i \in 1..n |-> IF i <= Len(v) THEN v[i] ELSE 0]

Dot(a, b) ==
    LET RECURSIVE D(_)
        D(i) == IF i > Len(a) THEN 0 ELSE a[i] * b[i] + D(i + 1)
    IN D(1)

Max(a, b) == IF a >= b THEN a ELSE b

\* `return 0`: the integer 0; every computed similarity is a float
ZeroSim == [dot |-> 0, mag2 |-> 1, kind |-> "int"]

\* a * b of two components: a float and a Decimal do not multiply (TypeError)
Multiplies(kind_a, kind_b) == kind_a = kind_b

\* dot_product / (mag_a * mag_b): the magnitudes are floats (math.sqrt), the
\* dot product has the kind of the components; Decimal / float is a TypeError
Divides(kind_dot) == kind_dot = "float"

CosineOfPadded(a, b, kind_a, kind_b) ==
    IF ~Multiplies(kind_a, kind_b) THEN Raised
    ELSE IF SumSquares(a) = 0 \/ SumSquares(b) = 0 THEN Returned(ZeroSim)
    ELSE IF ~Divides(kind_a) THEN Raised
    ELSE Returned([dot |-> Dot(a, b), mag2 |-> SumSquares(a) * SumSquares(b),
                   kind |-> "float"])

\* The result is [exc, val]: val is the similarity when exc is FALSE.
cosine_similarity(vec_a, vec_b) ==
    IF Len(vec_a.num) = 0 \/ Len(vec_b.num) = 0 THEN Returned(ZeroSim)
    ELSE CosineOfPadded(PadTo(vec_a.num, Max(Len(vec_a.num), Len(vec_b.num))),
                        PadTo(vec_b.num, Max(Len(vec_a.num), Len(vec_b.num))),
                        vec_a.kind, vec_b.kind)

\* a/b < c/d for a, c >= 0 and b, d > 0, without forming the cross products
RECURSIVE FracLess(_, _, _, _)
FracLess(a, b, c, d) ==
    LET i == a \div b
        j == c \div d
        r == a % b
        s == c % d
    IN  IF i # j THEN i < j
        ELSE IF s = 0 THEN FALSE
        ELSE IF r = 0 THEN TRUE
        ELSE FracLess(d, s, b, r)

SimLess(x, y) ==
    IF x.dot >= 0 /\ y.dot >= 0 THEN FracLess(x.dot * x.dot, x.mag2, y.dot * y.dot, y.mag2)
    ELSE IF x.dot < 0 /\ y.dot < 0 THEN FracLess(y.dot * y.dot, y.mag2, x.dot * x.dot, x.mag2)
    ELSE x.dot < 0

\* SIMILARITY_THRESHOLD = ThresholdNum / ThresholdDen = 0.6
ThresholdNum == 3
ThresholdDen == 5

\* similarity >= SIMILARITY_THRESHOLD
AtLeastThreshold(sim) ==
    /\ sim.dot >= 0
    /\ ThresholdDen * ThresholdDen * sim.dot * sim.dot
         >= ThresholdNum * ThresholdNum * sim.mag2

-----------------------------------------------------------------------------
(* Stable sort, highest first: list.sort(key=..., reverse=True) *)

SortDesc(s, Less(_, _)) ==
    LET RECURSIVE Ins(_, _)
        Ins(sorted, x) ==
            IF Len(sorted) = 0 THEN <<x>>
            ELSE IF Less(Head(sorted), x) THEN <<x>> \o sorted
            ELSE <<Head(sorted)>> \o Ins(Tail(sorted), x)
        RECURSIVE Srt(_)
        Srt(n) == IF n = 0 THEN <<>> ELSE Ins(Srt(n - 1), s[n])
    IN  Srt(Len(s))

Take(s, n) == SubSeq(s, 1, IF n < Len(s) THEN n ELSE Len(s))

MapSeq(s, F(_)) == [i \in 1..Len(s) |-> F(s[i])]

SelectList(s, P(_)) ==
    LET RECURSIVE Sel(_)
        Sel(i) == IF i > Len(s) THEN <<>>
                  ELSE (IF P(s[i]) THEN <<s[i]>> ELSE <<>>) \o Sel(i + 1)
    IN  Sel(1)

-----------------------------------------------------------------------------
(* DynamoDB scan: the table is read in pages of PageSize items; a scan call  *)
(* returns LastEvaluatedKey while items remain.  fail_at = k > 0 means the   *)
(* k-th scan call of the search raises; a table that does not exist raises   *)
(* on the first call.                                                       *)

PageSize == 2
MAX_RESULTS == 3

NumPages(items) == IF Len(items) = 0 THEN 1 ELSE (Len(items) + PageSize - 1) \div PageSize

Page(items, k) ==
    SubSeq(items, (k - 1) * PageSize + 1,
           IF k * PageSize < Len(items) THEN k * PageSize ELSE Len(items))

FailPoints(items) == 0..NumPages(items)

-----------------------------------------------------------------------------
(* LexicalMatcher, query_lambda copy *)

action_words == <<"send", "receive", "buy", "sell", "swap", "backup", "restore",
                  "create", "secure", "transfer", "exchange", "convert">>

stop_words == {"i", "do", "how", "what", "the", "a", "an", "is", "are", "with",
               "wallet", "palma"}

CountWhere(s, P(_)) == Cardinality({i \in 1..Len(s) : P(s[i])})

\* action words of the query that also occur in the question
ActionCount(query_lower, question) ==
    Cardinality({ i \in 1..Len(action_words) :
                    /\ Contains(action_words[i], query_lower)
                    /\ Contains(action_words[i], question) })

\* len(meaningful_common)
MeaningfulCount(query_lower, question) ==
    Cardinality((SplitWords(query_lower) \cap SplitWords(question)) \ stop_words)

\* keyword_match_count (a keyword listed twice counts twice)
KeywordCount(query_lower, keywords) ==
    Cardinality({ i \in 1..Len(keywords) :
                    Contains(keywords[i], query_lower) /\ keywords[i] \notin stop_words })

\* a plausible slip: an action word weighs 2, not 3
ClassifyWeakAction(exact, nActions, nMeaningful, nKeywords) ==
    IF nKeywords > 0 /\ nActions = 0 /\ nMeaningful < 2
    THEN [exact |-> exact, score2 |-> nKeywords, type |-> "keyword_only"]
    ELSE [exact |-> exact,
          score2 |-> 4 * nActions + (IF nMeaningful >= 2 THEN 2 * nMeaningful ELSE 0),
          type |-> IF nActions > 0 THEN "action_match"
                   ELSE IF nMeaningful >= 2 THEN "word_match" ELSE None]

\* Scores are kept doubled (score2 = 2 * match_score) so that the 0.5 weight
\* of a keyword is the integer 1.
Classify(exact, nActions, nMeaningful, nKeywords) ==
    IF nKeywords > 0 /\ nActions = 0 /\ nMeaningful < 2
    THEN [exact |-> exact, score2 |-> nKeywords, type |-> "keyword_only"]
    ELSE [exact |-> exact,
          score2 |-> 6 * nActions + (IF nMeaningful >= 2 THEN 2 * nMeaningful ELSE 0),
          type |-> IF nActions > 0 THEN "action_match"
                   ELSE IF nMeaningful >= 2 THEN "word_match" ELSE None]

ScoreLowered(query_lower, question, keywords) ==
    Classify(query_lower = question,
             ActionCount(query_lower, question),
             MeaningfulCount(query_lower, question),
             KeywordCount(query_lower, keywords))

ScoreItem(query_lower, item) ==
    ScoreLowered(query_lower, Lower(Get(item, "question", "")),
                 MapSeq(Get(item, "keywords", <<>>), Lower))

\* The three lists after one more item has been examined.
AddMatch(acc, item, sc) ==
    IF sc.exact
    THEN [acc EXCEPT !.exact_matches = Append(@, item)]
    ELSE IF sc.score2 >= 6
    THEN [acc EXCEPT !.partial_matches =
                        Append(@, [item |-> item, score2 |-> sc.score2, type |-> sc.type])]
    ELSE IF sc.score2 > 0 /\ sc.type = "keyword_only"
    THEN [acc EXCEPT !.keyword_matches =
                        Append(@, [item |-> item, score2 |-> sc.score2, type |-> sc.type])]
    ELSE acc

RECURSIVE ScanItems(_, _, _)
ScanItems(acc, query_lower, items) ==
    IF Len(items) = 0 THEN acc
    ELSE ScanItems(AddMatch(acc, Head(items), ScoreItem(query_lower, Head(items))),
                   query_lower, Tail(items))

NoMatches == [exact_matches |-> <<>>, partial_matches |-> <<>>, keyword_matches |-> <<>>]

\* Pages 1..k-1 examined; `raised` is TRUE when scan call k raised.
RECURSIVE ScanPages(_, _, _, _, _)
ScanPages(acc, query_lower, items, k, fail_at) ==
    IF k > NumPages(items) THEN [raised |-> FALSE, acc |-> acc]
    ELSE IF k = fail_at THEN [raised |-> TRUE, acc |-> acc]
    ELSE ScanPages(ScanItems(acc, query_lower, Page(items, k)),
                   query_lower, items, k + 1, fail_at)

ScoreLess(x, y) == x.score2 < y.score2

ItemOf(m) == m.item

\* a plausible slip: the first keyword match is returned, not the best one
FirstKeywordMatch(acc) ==
    IF Len(acc.exact_matches) > 0 THEN acc.exact_matches
    ELSE IF Len(acc.partial_matches) > 0
    THEN MapSeq(SortDesc(acc.partial_matches, ScoreLess), ItemOf)
    ELSE IF Len(acc.keyword_matches) > 0
    THEN <<acc.keyword_matches[1].item>>
    ELSE <<>>

PreferredMatches(acc) ==
    IF Len(acc.exact_matches) > 0 THEN acc.exact_matches
    ELSE IF Len(acc.partial_matches) > 0
    THEN MapSeq(SortDesc(acc.partial_matches, ScoreLess), ItemOf)
    ELSE IF Len(acc.keyword_matches) > 0
    THEN <<SortDesc(acc.keyword_matches, ScoreLess)[1].item>>
    ELSE <<>>

\* a plausible slip: the matches collected before the failure are returned
LexicalKeepCollected(acc) ==
    IF variant = "query_lambda" THEN PreferredMatches(acc) ELSE acc

\* except Exception: return []
LexicalOnError(acc) == <<>>

LexicalResult(scan) ==
    IF scan.raised THEN LexicalOnError(scan.acc) ELSE PreferredMatches(scan.acc)

search_faq_table_lambda(query, items, exists, fail_at) ==
    LexicalResult(ScanPages(NoMatches, Lower(query), items, 1,
                            IF exists THEN fail_at ELSE 1))

-----------------------------------------------------------------------------
(* LexicalMatcher, query_processor copy: English entries only *)

en_stop_words == {"what", "which", "does", "do", "the", "a", "an", "is", "are",
                  "it", "how", "can", "i", "my", "to", "with", "for", "of",
                  "in", "on", "at", "from", "by", "about", "palma", "wallet"}

key_terms == <<"cryptocurrency", "cryptocurrencies", "crypto", "support", "accept",
               "send", "receive", "transfer", "fee", "fees", "security", "backup",
               "restore", "create", "usdt", "usdc", "bitcoin", "ethereum">>

IsEnglishEntry(item) == StartsWith(Get(item, "id", ""), "en_")

\* All pages are collected first (FilterExpression begins_with(id, "en_")).
RECURSIVE CollectPages(_, _, _, _)
CollectPages(acc, items, k, fail_at) ==
    IF k > NumPages(items) THEN [raised |-> FALSE, acc |-> acc]
    ELSE IF k = fail_at THEN [raised |-> TRUE, acc |-> acc]
    ELSE CollectPages(acc \o SelectList(Page(items, k), IsEnglishEntry),
                      items, k + 1, fail_at)

EnglishCommonCount(query_lower, question) ==
    Cardinality((SplitWords(query_lower) \ en_stop_words)
                    \cap (SplitWords(question) \ en_stop_words))

KeyTermCount(query_lower, question) ==
    Cardinality({ i \in 1..Len(key_terms) :
                    /\ Contains(key_terms[i], query_lower)
                    /\ Contains(key_terms[i], question) })

EnglishScore(query_lower, question) ==
    (IF Contains(query_lower, question) THEN 10
     ELSE IF Contains(question, query_lower) THEN 8 ELSE 0)
    + 2 * EnglishCommonCount(query_lower, question)
    + 3 * KeyTermCount(query_lower, question)

ScoreEnglishLowered(query_lower, question, item) ==
    [item |-> item, exact |-> query_lower = question,
     score |-> EnglishScore(query_lower, question)]

ScoreEnglishItem(query_lower, item) ==
    ScoreEnglishLowered(query_lower, Lower(Get(item, "question", "")), item)

PlainScoreLess(x, y) == x.score < y.score

IsExact(m) == m.exact
IsHigh(m) == ~m.exact /\ m.score >= 8
IsMedium(m) == ~m.exact /\ m.score < 8 /\ m.score >= 4

BestEnglish(exact_matches, high_matches, medium_matches) ==
    IF Len(exact_matches) > 0 THEN MapSeq(Take(exact_matches, 3), ItemOf)
    ELSE IF Len(high_matches) > 0
    THEN MapSeq(Take(SortDesc(high_matches, PlainScoreLess), 3), ItemOf)
    ELSE IF Len(medium_matches) > 0
    THEN MapSeq(Take(SortDesc(medium_matches, PlainScoreLess), 1), ItemOf)
    ELSE <<>>

RankScored(scored) ==
    BestEnglish(SelectList(scored, IsExact), SelectList(scored, IsHigh),
                SelectList(scored, IsMedium))

RankEnglishItems(query_lower, items) ==
    RankScored([i \in 1..Len(items) |-> ScoreEnglishItem(query_lower, items[i])])

EnglishResult(scan, query) ==
    IF scan.raised THEN LexicalOnError(scan.acc)
    ELSE IF Len(scan.acc) = 0 THEN <<>>
    ELSE RankEnglishItems(Lower(query), scan.acc)

search_faq_table_processor(query, items, exists, fail_at) ==
    EnglishResult(CollectPages(<<>>, items, 1, IF exists THEN fail_at ELSE 1), query)

search_faq_table(which, query, items, exists, fail_at) ==
    IF which = "query_lambda"
    THEN search_faq_table_lambda(query, items, exists, fail_at)
    ELSE search_faq_table_processor(query, items, exists, fail_at)

-----------------------------------------------------------------------------
(* SemanticMatcher (the two copies of the handler agree on it) *)

NoEmbedding == [num |-> <<>>, den2 |-> 1, kind |-> "float"]

\* A search in progress is [raised, acc]: raised is TRUE once a call raised.
AddScored(results, item, sim) ==
    IF sim.exc THEN [raised |-> TRUE, acc |-> results]
    ELSE IF AtLeastThreshold(sim.val)
    THEN [raised |-> FALSE, acc |-> Append(results, [item |-> item, similarity |-> sim.val])]
    ELSE [raised |-> FALSE, acc |-> results]

\* results after one candidate is examined
AddCandidate(results, item, embedding, query_vec) ==
    IF Len(embedding.num) = 0 THEN [raised |-> FALSE, acc |-> results]
    ELSE AddScored(results, item, cosine_similarity(query_vec, embedding))

\* results after the candidates of one page (or of the snapshot) are scored
RECURSIVE ScoreCandidates(_, _, _)
RECURSIVE ScoreRest(_, _, _)
ScoreCandidates(results, query_vec, items) ==
    IF Len(items) = 0 THEN [raised |-> FALSE, acc |-> results]
    ELSE ScoreRest(AddCandidate(results, Head(items),
                                Get(Head(items), "embedding", NoEmbedding), query_vec),
                   query_vec, Tail(items))

ScoreRest(scan, query_vec, items) ==
    IF scan.raised THEN scan ELSE ScoreCandidates(scan.acc, query_vec, items)

RECURSIVE SemanticPages(_, _, _, _, _)
RECURSIVE NextPage(_, _, _, _, _)
SemanticPages(results, query_vec, items, k, fail_at) ==
    IF k > NumPages(items) THEN [raised |-> FALSE, acc |-> results]
    ELSE IF k = fail_at THEN [raised |-> TRUE, acc |-> results]
    ELSE NextPage(ScoreCandidates(results, query_vec, Page(items, k)),
                  query_vec, items, k + 1, fail_at)

NextPage(scan, query_vec, items, k, fail_at) ==
    IF scan.raised THEN scan ELSE SemanticPages(scan.acc, query_vec, items, k, fail_at)

SimilarityLess(x, y) == SimLess(x.similarity, y.similarity)

TopResults(results) == Take(SortDesc(results, SimilarityLess), MAX_RESULTS)

\* except Exception: return []
SemanticOnError(results) == <<>>

SemanticResult(scan) ==
    IF scan.raised THEN SemanticOnError(scan.acc) ELSE TopResults(scan.acc)

semantic_search_faq_table(query_vec, items, exists, fail_at) ==
    SemanticResult(SemanticPages(<<>>, query_vec, items, 1, IF exists THEN fail_at ELSE 1))

ModifiedLess(x, y) == x.modified < y.modified

\* the characters of the object keys in the order of their codes
KeyAlphabet == "-./0123456789_abcdefghijklmnopqrstuvwxyz"

KeyCode(c) ==
    IF \E i \in 1..Len(KeyAlphabet) : CharAt(KeyAlphabet, i) = c
    THEN CHOOSE i \in 1..Len(KeyAlphabet) : CharAt(KeyAlphabet, i) = c
    ELSE 0

\* the positions at which both keys have a character and the characters differ
KeyDifferences(a, b) ==
    { i \in 1..(IF Len(a) < Len(b) THEN Len(a) ELSE Len(b)) : CharAt(a, i) # CharAt(b, i) }

FirstOf(positions) == CHOOSE i \in positions : \A j \in positions : i <= j

\* a < b in the order S3 lists keys (the binary order of the UTF-8 bytes)
KeyLess(a, b) ==
    IF KeyDifferences(a, b) = {} THEN Len(a) < Len(b)
    ELSE KeyCode(CharAt(a, FirstOf(KeyDifferences(a, b))))
             < KeyCode(CharAt(b, FirstOf(KeyDifferences(a, b))))

KeyOrderLess(x, y) == KeyLess(y.key, x.key)

\* s3.list_objects_v2(Bucket, Prefix) returns the first MaxKeys objects in key
\* order (1000 in S3) and a continuation token that the search does not use
MaxKeys == 2

list_objects_v2(objects) == Take(SortDesc(objects, KeyOrderLess), MaxKeys)

\* `fault` is "none", "list" (list_objects_v2 raised) or "get" (get_object or
\* the JSON decoding of its body raised).
search_embeddings_s3(query_vec, objects, fault) ==
    IF fault = "list" THEN SemanticOnError(<<>>)
    ELSE IF Len(objects) = 0 THEN <<>>
    ELSE IF fault = "get" THEN SemanticOnError(<<>>)
    ELSE SemanticResult(ScoreCandidates(<<>>, query_vec,
                                        SortDesc(list_objects_v2(objects),
                                                 ModifiedLess)[1].body))

-----------------------------------------------------------------------------
(* Response generation and query logging *)

\* a plausible slip: the fallback text echoes the query
default_response_echo == "I don't have specific information about " \o body.query

\* the text of the default response of query_knowledge_base
default_response ==
    "I don't have specific information about that in my knowledge base. I can help with questions about sending/receiving cryptocurrency, wallet security, transaction fees, and general Palma Wallet features. Would you like to know more about any of these topics?"

\* the text generate_ai_response of the query_processor copy returns when no
\* retrieved chunk is an English entry
no_context_response ==
    "I don't have specific information about that in my knowledge base. I can help with questions about sending/receiving cryptocurrency, wallet security, transaction fees, and general Palma Wallet features. Would you like to know more about any of these topics?"

apology_lambda ==
    "I'm sorry, I encountered an error while processing your question. Please try asking again or contact our support team for assistance."

apology_processor ==
    "I apologize, but I'm having trouble processing your request. Please try again or contact support."

\* "Section: ..\nQuestion: ..\nAnswer: ..\n\n" of the query_lambda copy
ContextEntry(found) ==
    [section_title |-> Get(found.item, "section_title", ""),
     question      |-> Get(found.item, "question", ""),
     answer        |-> Get(found.item, "answer", "")]

\* "Question: ..\nAnswer: ..\n\n" of the query_processor copy
EnglishContextEntry(found) ==
    [question |-> Get(found.item, "question", ""),
     answer   |-> Get(found.item, "answer", "")]

FoundIsEnglish(found) == IsEnglishEntry(found.item)

\* The retrieved chunks that are written into the prompt's context, in order.
ContextChunks(which, context_items) ==
    IF which = "query_lambda" THEN context_items
    ELSE SelectList(context_items, FoundIsEnglish)

\* The context text, one entry per chunk.
ContextOf(which, chunks) ==
    IF which = "query_lambda" THEN MapSeq(chunks, ContextEntry)
    ELSE MapSeq(chunks, EnglishContextEntry)

\* a plausible slip: an empty text instead of the apology
GenerationOnErrorEmpty(which) == ""

\* except Exception: return the apology
GenerationOnError(which) ==
    IF which = "query_lambda" THEN apology_lambda ELSE apology_processor

\* `outcome` is what the generation service did: [kind |-> "text", text |-> t]
\* or [kind |-> "error"].  invoked tells whether the service was called.
GenerateFrom(which, chunks, context, outcome) ==
    IF which = "query_processor" /\ Len(context) = 0
    THEN [text |-> no_context_response, invoked |-> FALSE, chunks |-> chunks]
    ELSE IF outcome.kind = "error"
    THEN [text |-> GenerationOnError(which), invoked |-> TRUE, chunks |-> chunks]
    ELSE [text |-> Strip(outcome.text), invoked |-> TRUE, chunks |-> chunks]

generate_ai_response(which, query, context_items, outcome) ==
    GenerateFrom(which, ContextChunks(which, context_items),
                 ContextOf(which, ContextChunks(which, context_items)), outcome)

\* the float 1.0
OneSim == [dot |-> 1, mag2 |-> 1, kind |-> "float"]

\* The table resource serializes the item before it is sent: a Python float
\* is refused with a TypeError, an int or a Decimal is accepted.
Serializes(number) == number.kind # "float"

Optional(name, value) ==
    IF value = None \/ value = "" THEN [f \in {} |-> None] ELSE [f \in {name} |-> value]

ChunkIdOf(found) == Get(found.item, "chunk_id", None)

\* a plausible slip: the item is written a second time under another key
PutItemTwice(table, key, item) ==
    [k \in (DOMAIN table) \cup {key, key \o "_retry"} |->
        IF k \in {key, key \o "_retry"} THEN item ELSE table[k]]

PutItem(table, key, item) ==
    [k \in (DOMAIN table) \cup {key} |-> IF k = key THEN item ELSE table[k]]

\* a plausible slip: the logging failure is raised to the handler
LogOnErrorReraise == Raised

\* except Exception: return None (the error is logged and swallowed)
LogOnError == [exc |-> FALSE, val |-> None]

\* `put` is "ok" or "error" (put_item raised); new_id is the generated
\* "query_<timestamp>_<8 hex digits>".  Returns the id and the new table.
log_query(log, exists, query, response, found_items, user_id, session_id, put, new_id) ==
    LET log_item ==
            [query_id       |-> new_id,
             query_text     |-> query,
             response_text  |-> response,
             num_matches    |-> Len(found_items),
             match_ids      |-> MapSeq(found_items, ChunkIdOf),
             top_similarity |-> IF Len(found_items) > 0
                                THEN Get(found_items[1], "similarity", ZeroSim)
                                ELSE ZeroSim]
            @@ Optional("user_id", user_id) @@ Optional("session_id", session_id)
    IN  IF put = "error" \/ ~exists \/ ~Serializes(log_item.top_similarity)
        THEN [ret |-> LogOnError, log |-> log, failed |-> TRUE]
        ELSE [ret |-> Returned(new_id), log |-> PutItem(log, new_id, log_item),
              failed |-> FALSE]

-----------------------------------------------------------------------------
(* Stores, collaborator outcomes and requests the behaviours draw from *)

FAQ_TABLE == "palma-wallet-faq-new"
QUERY_LOG_TABLE == "palma-wallet-query-logs-new"

\* a vector of floats, as json.loads yields it
Vec(q) == [num |-> q, den2 |-> 1, kind |-> "float"]

\* a vector as a scan of the FAQ table yields it: every number is a Decimal
DecimalVec(q) == [num |-> q, den2 |-> 1, kind |-> "Decimal"]

ItemSend ==
    [id |-> "en_1", question |-> "How do I send crypto?", answer |-> "Tap Send.",
     section |-> "Basics", keywords |-> <<"send">>, embedding |-> DecimalVec(<<1, 0>>)]

ItemBackup ==
    [id |-> "faq_2", question |-> "How do I backup my wallet?",
     answer |-> " Open Settings.\n", section |-> "Security",
     keywords |-> <<"Seed", "backup">>, embedding |-> DecimalVec(<<0, 1>>)]

ItemFees ==
    [id |-> "en_3", question |-> "Fees", answer |-> "Fees are low.",
     section |-> "Fees", keywords |-> <<"fee">>]

ItemAbout ==
    [id |-> "en_4", question |-> "What is Palma?", answer |-> "A crypto wallet.",
     section |-> "Basics", keywords |-> <<>>, embedding |-> DecimalVec(<<4, 3>>)]

ChunkSwap ==
    [chunk_id |-> "c1", section_title |-> "Trading", question |-> "Can I swap tokens?",
     answer |-> "Yes, in Swap.", keywords |-> <<>>, embedding |-> Vec(<<-1>>)]

FaqTables == { <<>>, <<ItemSend, ItemBackup, ItemFees, ItemAbout>> }

SnapshotSets ==
    { <<>>,
      <<[key |-> "embeddings/embeddings-kb-1.json", modified |-> 1, body |-> <<ChunkSwap>>]>> }

Variants == {"query_lambda", "query_processor"}

TableSets == SUBSET {FAQ_TABLE, QUERY_LOG_TABLE}

Events ==
    { [query |-> "how do i send crypto?", user_id |-> "u1"],
      [query |-> "seed phrase"],
      [query |-> "hello", session_id |-> "s1"],
      [query |-> ""],
      [user_id |-> "u1"],
      [httpMethod |-> "POST", path |-> "/query", body |-> None],
      [httpMethod |-> "POST", path |-> "/query", body |-> "{}"],
      [httpMethod |-> "POST", path |-> "/query", body |-> "{\"query\": \"\"}"],
      [httpMethod |-> "POST", path |-> "/query", body |-> "query=hello"] }

EmbedOutcomes ==
    { [kind |-> "transport_error"],
      [kind |-> "access_denied"],
      [kind |-> "no_embeddings"],
      [kind |-> "vector", vec |-> Vec(<<3, 4>>)],
      [kind |-> "vector", vec |-> Vec(<<-1, 0>>)],
      [kind |-> "vector", vec |-> Vec(<<>>)] }

GenOutcomes ==
    { [kind |-> "error"],
      [kind |-> "text", text |-> " Open Swap. \n"] }

PutOutcomes == {"ok", "error"}

NewIds == {"query_20240101000000_0a1b2c3d", "query_20240101000001_9f8e7d6c"}

-----------------------------------------------------------------------------
(* The query handler, query_knowledge_base *)

EmptyTable == [k \in {} |-> None]

NoCall == [fn |-> None]

NoTrace ==
    [lexical |-> 0, embed |-> 0, primary |-> 0, secondary |-> 0, generate |-> 0,
     log |-> 0, lexFault |-> 0, primFault |-> 0, secFault |-> "none",
     embedFailed |-> FALSE, genFailed |-> FALSE, logFailed |-> FALSE,
     genContext |-> <<>>, genQuery |-> None, genText |-> None, tier |-> None,
     primCount |-> 0, primVec |-> NoEmbedding, secVec |-> NoEmbedding,
     event |-> EmptyTable]

NoResult == [statusCode |-> 0]

Init ==
    /\ variant \in Variants
    /\ tables \in TableSets
    /\ faqTable \in (IF FAQ_TABLE \in tables THEN FaqTables ELSE { <<>> })
    /\ snapshots \in SnapshotSets
    /\ queryLog = EmptyTable
    /\ inbox \in { <<e>> : e \in Events }
    /\ pc = "idle"
    /\ body = [query |-> ""]
    /\ faq_matches = <<>>
    /\ query_embedding = NoEmbedding
    /\ search_results = <<>>
    /\ response_text = ""
    /\ source = None
    /\ query_id = None
    /\ result = NoResult
    /\ trace = NoTrace
    /\ resolved = {}
    /\ call = NoCall
    /\ memo = {}
    /\ processed = <<>>

\* check_or_create_table: `outcome` is "ok", or "error" when describe_table
\* (other than by ResourceNotFoundException) or create_table raised.
check_or_create_table(existing, table_name, outcome) ==
    IF table_name \in existing \/ outcome = "error" THEN existing
    ELSE existing \cup {table_name}

\* json.loads: raises TypeError for None and JSONDecodeError for a text that
\* is not JSON.  The JSON texts the requests carry are decoded by table.
JsonLoads(text) ==
    IF text = None THEN Raised
    ELSE IF text = "{}" THEN Returned(EmptyTable)
    ELSE IF text = "{\"query\": \"\"}" THEN Returned([query |-> ""])
    ELSE Raised

\* body = json.loads(event.get('body', '{}')) if 'body' in event else event
ParseBody(event) ==
    IF "body" \in DOMAIN event THEN JsonLoads(event.body) ELSE Returned(event)

ClientError(message) == [statusCode |-> 400, body |-> [error |-> message]]

ServerError == [statusCode |-> 500, body |-> [error |-> "Error processing your query"]]

\* an event that S3 or an operator sends to the ingestion function
IsUpload(event) == DOMAIN event \cap {"Records", "key", "trigger"} # {}

\* lambda_handler routes a request to /feedback to process_feedback; the
\* query_lambda copy asks for the method POST as well
IsFeedback(event) ==
    /\ Get(event, "path", None) = "/feedback"
    /\ variant = "query_lambda" => Get(event, "httpMethod", None) = "POST"

Receive ==
    /\ pc \in {"idle", "done"}
    /\ Len(inbox) > 0
    /\ ~IsUpload(Head(inbox))
    /\ ~IsFeedback(Head(inbox))
    /\ \E o1 \in PutOutcomes, o2 \in PutOutcomes :
          tables' = check_or_create_table(
                        check_or_create_table(tables, FAQ_TABLE, o1), QUERY_LOG_TABLE, o2)
    /\ body' = IF ParseBody(Head(inbox)).exc THEN EmptyTable
               ELSE ParseBody(Head(inbox)).val
    /\ inbox' = Tail(inbox)
    /\ faq_matches' = <<>>
    /\ query_embedding' = NoEmbedding
    /\ search_results' = <<>>
    /\ response_text' = ""
    /\ source' = None
    /\ query_id' = None
    /\ trace' = [NoTrace EXCEPT !.event = Head(inbox)]
    /\ IF ParseBody(Head(inbox)).exc
       THEN /\ result' = ServerError
            /\ pc' = "done"
       ELSE IF Get(body', "query", "") = ""
       THEN /\ result' = ClientError("Query parameter is required")
            /\ pc' = "done"
       ELSE /\ result' = NoResult
            /\ pc' = "lexical"
    /\ UNCHANGED <<call, memo, processed, variant, faqTable, snapshots, queryLog, resolved>>

\* a plausible slip: the answer is trimmed before it is returned
FirstAnswerStripped(matches) == Strip(Get(matches[1], "answer", ""))

\* match.get('answer', '') of the first match
FirstAnswer(matches) == Get(matches[1], "answer", "")

\* a plausible slip: every response is labelled as a direct FAQ match
SuccessBodyDirect(text, src, id, found) ==
    [response |-> text, source |-> "faq_direct_match", query_id |-> id]

\* the body of a 200 response
SuccessBody(text, src, id, found) ==
    IF src = "embedding_search"
    THEN [response |-> text, source |-> src, matches |-> Len(found), query_id |-> id]
    ELSE [response |-> text, source |-> src, query_id |-> id]

LexicalLookup ==
    /\ pc = "lexical"
    /\ \E fail_at \in FailPoints(faqTable) :
       \E matches \in { search_faq_table(variant, body.query, faqTable,
                                         FAQ_TABLE \in tables, fail_at) } :
            /\ faq_matches' = matches
            /\ trace' = [trace EXCEPT !.lexical = @ + 1,
                                      !.lexFault = IF FAQ_TABLE \in tables THEN fail_at ELSE 1,
                                      !.tier = IF Len(matches) > 0 THEN "lexical" ELSE @]
            /\ IF Len(matches) = 0
               THEN /\ pc' = "embed"
                    /\ UNCHANGED <<response_text, source, result, resolved>>
               ELSE /\ response_text' = FirstAnswer(matches)
                    /\ source' = "faq_direct_match"
                    /\ IF variant = "query_lambda"
                       THEN pc' = "log" /\ UNCHANGED <<result, resolved>>
                       ELSE /\ pc' = "done"
                            /\ result' = [statusCode |-> 200,
                                          body |-> SuccessBody(FirstAnswer(matches),
                                                       "faq_direct_match", None, <<>>)]
                            /\ resolved' = resolved \cup {<<"lexical", result'.body.source>>}
    /\ UNCHANGED <<call, memo, processed, variant, tables, faqTable, snapshots, queryLog, inbox, body,
                   query_embedding, search_results, query_id>>

EmbedQuery ==
    /\ pc = "embed"
    /\ \E outcome \in EmbedOutcomes :
       \E e \in { get_embeddings(body.query, outcome) } :
            /\ trace' = [trace EXCEPT !.embed = @ + 1,
                                      !.embedFailed = (outcome.kind # "vector")]
            /\ IF e.exc
               THEN /\ result' = ServerError
                    /\ pc' = "done"
                    /\ UNCHANGED query_embedding
               ELSE /\ query_embedding' = e.val
                    /\ pc' = "primary"
                    /\ UNCHANGED result
    /\ UNCHANGED <<call, memo, processed, variant, tables, faqTable, snapshots, queryLog, inbox, body,
                   faq_matches, search_results, response_text, source, query_id, resolved>>

\* a plausible slip: after a primary miss the query is embedded again
AfterPrimaryReembed(found) == IF Len(found) > 0 THEN "generate" ELSE "embed"

\* if not search_results: search_results = search_embeddings_s3(...)
AfterPrimary(found) == IF Len(found) > 0 THEN "generate" ELSE "secondary"

SemanticPrimary ==
    /\ pc = "primary"
    /\ \E fail_at \in FailPoints(faqTable) :
       \E found \in { semantic_search_faq_table(query_embedding, faqTable,
                                                FAQ_TABLE \in tables, fail_at) } :
            /\ search_results' = found
            /\ trace' = [trace EXCEPT !.primary = @ + 1,
                                      !.primFault = IF FAQ_TABLE \in tables THEN fail_at ELSE 1,
                                      !.primCount = Len(found),
                                      !.primVec = query_embedding,
                                      !.tier = IF Len(found) > 0 THEN "primary" ELSE @]
            /\ pc' = AfterPrimary(found)
    /\ UNCHANGED <<call, memo, processed, variant, tables, faqTable, snapshots, queryLog, inbox, body,
                   faq_matches, query_embedding, response_text, source, query_id, result, resolved>>

S3Faults == {"none", "list", "get"}

SemanticSecondary ==
    /\ pc = "secondary"
    /\ \E fault \in S3Faults :
       \E found \in { search_embeddings_s3(query_embedding, snapshots, fault) } :
            /\ search_results' = found
            /\ trace' = [trace EXCEPT !.secondary = @ + 1,
                                      !.secFault = fault,
                                      !.secVec = query_embedding,
                                      !.tier = IF Len(found) > 0 THEN "secondary" ELSE "default"]
            /\ IF Len(found) > 0
               THEN /\ pc' = "generate"
                    /\ UNCHANGED <<response_text, source>>
               ELSE /\ response_text' = default_response
                    /\ source' = "default_response"
                    /\ pc' = "log"
    /\ UNCHANGED <<call, memo, processed, variant, tables, faqTable, snapshots, queryLog, inbox, body,
                   faq_matches, query_embedding, query_id, result, resolved>>

Generate ==
    /\ pc = "generate"
    /\ \E outcome \in GenOutcomes :
       \E g \in { generate_ai_response(variant, body.query, search_results, outcome) } :
            /\ response_text' = g.text
            /\ source' = "embedding_search"
            /\ trace' = [trace EXCEPT
                            !.generate = IF g.invoked THEN @ + 1 ELSE @,
                            !.genFailed = g.invoked /\ outcome.kind = "error",
                            !.genContext = IF g.invoked THEN g.chunks ELSE @,
                            !.genQuery = IF g.invoked THEN body.query ELSE @,
                            !.genText = IF g.invoked /\ outcome.kind = "text"
                                        THEN outcome.text ELSE @]
            /\ pc' = "log"
    /\ UNCHANGED <<call, memo, processed, variant, tables, faqTable, snapshots, queryLog, inbox, body,
                   faq_matches, query_embedding, search_results, query_id, result, resolved>>

DirectMatchFound(m) == [item |-> [chunk_id |-> Get(m, "id", None)], similarity |-> OneSim]

FoundItems ==
    IF source = "faq_direct_match" THEN MapSeq(faq_matches, DirectMatchFound)
    ELSE IF source = "default_response" THEN <<>>
    ELSE search_results

LogQuery ==
    /\ pc = "log"
    /\ \E put \in PutOutcomes, new_id \in NewIds :
       \E l \in { log_query(queryLog, QUERY_LOG_TABLE \in tables, body.query,
                            response_text, FoundItems, Get(body, "user_id", None),
                            Get(body, "session_id", None), put, new_id) } :
            /\ queryLog' = l.log
            /\ trace' = [trace EXCEPT
                            !.log = @ + 1,
                            !.logFailed = l.failed]
            /\ IF l.ret.exc
               THEN /\ result' = ServerError
                    /\ UNCHANGED <<query_id, resolved>>
               ELSE /\ query_id' = l.ret.val
                    /\ result' = [statusCode |-> 200,
                                  body |-> SuccessBody(response_text, source, l.ret.val,
                                                       search_results)]
                    /\ resolved' = resolved \cup {<<trace.tier, result'.body.source>>}
            /\ pc' = "done"
    /\ UNCHANGED <<call, memo, processed, variant, tables, faqTable, snapshots, inbox, body, faq_matches,
                   query_embedding, search_results, response_text, source>>

Next ==
    \/ Receive
    \/ LexicalLookup
    \/ EmbedQuery
    \/ SemanticPrimary
    \/ SemanticSecondary
    \/ Generate
    \/ LogQuery

Spec == Init /\ [][Next]_vars

\* Two consecutive invocations against populated stores.
SeqEvents ==
    { [query |-> "how do i send crypto?", user_id |-> "u1"],
      [query |-> "hello", session_id |-> "s1"] }

InitSeq ==
    /\ variant \in Variants
    /\ tables = {FAQ_TABLE, QUERY_LOG_TABLE}
    /\ faqTable = <<ItemSend, ItemBackup, ItemFees, ItemAbout>>
    /\ snapshots \in SnapshotSets \ { <<>> }
    /\ queryLog = EmptyTable
    /\ inbox \in { <<a, b>> : a \in SeqEvents, b \in SeqEvents }
    /\ pc = "idle"
    /\ body = [query |-> ""]
    /\ faq_matches = <<>>
    /\ query_embedding = NoEmbedding
    /\ search_results = <<>>
    /\ response_text = ""
    /\ source = None
    /\ query_id = None
    /\ result = NoResult
    /\ trace = NoTrace
    /\ resolved = {}
    /\ call = NoCall
    /\ memo = {}
    /\ processed = <<>>

SpecSeq == InitSeq /\ [][Next]_vars

-----------------------------------------------------------------------------
(* Properties of query resolution *)

Done == pc = "done"

Succeeded == Done /\ result.statusCode = 200

ResponseText == Get(result.body, "response", None)

ResponseSource == Get(result.body, "source", None)

LexicalHit == trace.lexical = 1 /\ Len(faq_matches) > 0

\* C1: whenever the lexical matcher returns a non-empty result, the response
\* text is the answer of the first returned chunk verbatim, and the embedder,
\* both semantic searches and the generation service are not invoked during
\* that request.
LexicalHitShortCircuits ==
    LexicalHit =>
        /\ trace.embed = 0
        /\ trace.primary = 0
        /\ trace.secondary = 0
        /\ trace.generate = 0
        /\ response_text = faq_matches[1].answer
        /\ Done => /\ result.statusCode = 200
                   /\ ResponseText = faq_matches[1].answer

\* a lexical hit whose stored answer has surrounding whitespace was returned
LexicalHitAnswered ==
    /\ Succeeded
    /\ LexicalHit
    /\ ResponseText = faq_matches[1].answer
    /\ Strip(faq_matches[1].answer) # faq_matches[1].answer

LexicalMiss == trace.lexical = 1 /\ Len(faq_matches) = 0

\* C2: on a lexical miss the query is embedded exactly once; the secondary
\* store is searched only if the primary search returned zero results, and then
\* with the same query embedding; when the primary search returns at least one
\* result the secondary store is not read in that request.
SecondaryOnlyAfterPrimaryMiss ==
    /\ trace.embed <= 1
    /\ trace.primary <= 1
    /\ trace.secondary <= 1
    /\ (LexicalMiss /\ pc \in {"primary", "secondary", "generate", "log"}) => trace.embed = 1
    /\ (LexicalMiss /\ Succeeded) => trace.embed = 1
    /\ trace.primary = 1 => trace.embed = 1 /\ trace.primVec = query_embedding
    /\ trace.secondary = 1 =>
          /\ trace.primary = 1
          /\ trace.primCount = 0
          /\ trace.secVec = trace.primVec
    /\ (trace.primary = 1 /\ trace.primCount > 0) => trace.secondary = 0

\* the snapshot was searched after the primary search came back empty, with
\* the vector the query was embedded to, and it resolved the request
SecondarySearchedAfterPrimaryMiss ==
    /\ Succeeded
    /\ trace.embed = 1
    /\ trace.primary = 1 /\ trace.primCount = 0
    /\ trace.secondary = 1
    /\ trace.secVec = trace.primVec /\ Len(trace.secVec.num) > 0
    /\ trace.tier = "secondary"

\* C3: a request whose query is non-empty ends with a successful response
\* carrying a response text, whatever the embedding service, the generation
\* service, the chunk stores and the log store did.
NonEmptyQueryAlwaysAnswered ==
    (Done /\ Get(body, "query", "") # "") =>
        /\ result.statusCode = 200
        /\ "response" \in DOMAIN result.body

\* a request answered although the FAQ scan, the embedding service, the
\* snapshot read and the log store all failed
AnsweredDespiteFailures ==
    /\ Succeeded
    /\ trace.lexFault > 0
    /\ trace.embedFailed
    /\ trace.primFault > 0
    /\ trace.secFault # "none"
    /\ trace.logFailed

\* C4: every successful resolution, whichever tier resolved it, has called
\* log_query exactly once.
EveryResolutionLoggedOnce ==
    Succeeded => trace.log = 1

\* C5: when the log store fails during log_query, the handler still returns
\* status 200 with the response text and source chosen before logging, and the
\* returned query id is None; the log table is left as it was.
LoggingFailureSwallowed ==
    [][(pc = "log" /\ pc' = "done") =>
          /\ result'.statusCode = 200
          /\ Get(result'.body, "response", None) = response_text
          /\ Get(result'.body, "source", None) = source
          /\ trace'.logFailed =>
                /\ query_id' = None
                /\ Get(result'.body, "query_id", "") = None
                /\ queryLog' = queryLog]_vars

\* a semantic resolution was returned although the log store failed
AnsweredWithoutLogEntry ==
    /\ Succeeded
    /\ trace.logFailed
    /\ trace.log = 1
    /\ ResponseSource = "embedding_search"
    /\ Get(result.body, "query_id", "") = None

SecondaryFaulted ==
    trace.secFault = "list" \/ (trace.secFault = "get" /\ Len(snapshots) > 0)

\* C6: a failure while scanning or reading a chunk store makes that tier yield
\* an empty result (matches collected before the failure are dropped) and the
\* request goes on to the next tier or to the default response.
StoreFailureDegrades ==
    /\ (trace.lexical = 1 /\ trace.lexFault > 0) =>
          /\ Len(faq_matches) = 0
          /\ pc \in {"embed", "primary", "secondary", "generate", "log", "done"}
          /\ Done => (result.statusCode = 200 /\ trace.embed = 1)
    /\ (trace.primary = 1 /\ trace.primFault > 0) =>
          /\ trace.primCount = 0
          /\ trace.tier # "primary"
          /\ pc \in {"secondary", "generate", "log", "done"}
          /\ Done => (result.statusCode = 200 /\ trace.secondary = 1)
    /\ (trace.secondary = 1 /\ SecondaryFaulted) =>
          /\ Len(search_results) = 0
          /\ pc \in {"log", "done"}
          /\ response_text = default_response
          /\ Done => (result.statusCode = 200 /\ ResponseSource = "default_response")

\* the FAQ scan failed on its second page in both searches, after the first
\* page had supplied a lexical match
LaterPageFailureDropsMatches ==
    /\ Succeeded
    /\ FAQ_TABLE \in tables
    /\ trace.lexFault = 2
    /\ trace.primFault = 2
    /\ Len(search_faq_table(variant, body.query, Page(faqTable, 1), TRUE, 0)) > 0
    /\ trace.tier \in {"secondary", "default"}

SemanticResolution == Succeeded /\ trace.tier \in {"primary", "secondary"}

\* C7: for every semantic resolution the generation service is invoked once,
\* with the ranked context chunks and the raw query, and the text it returns
\* (trimmed of surrounding whitespace) is the response.
SemanticResolutionGenerated ==
    SemanticResolution =>
        /\ trace.generate = 1
        /\ trace.genContext = search_results
        /\ trace.genQuery = body.query
        /\ ~trace.genFailed => ResponseText = Strip(trace.genText)

\* C8: when the generation service fails during a semantic resolution, the
\* response text is the fixed apology of the deployed handler, the request
\* still succeeds and log_query is still called once.
GenerationFailureApologises ==
    (Done /\ trace.genFailed) =>
        /\ result.statusCode = 200
        /\ variant = "query_lambda" =>
              ResponseText = "I'm sorry, I encountered an error while processing your question. Please try asking again or contact our support team for assistance."
        /\ variant = "query_processor" =>
              ResponseText = "I apologize, but I'm having trouble processing your request. Please try again or contact support."
        /\ trace.log = 1

\* the generation service failed in a semantic resolution that completed
ApologyReturned ==
    /\ Succeeded
    /\ trace.genFailed
    /\ trace.tier \in {"primary", "secondary"}
    /\ ResponseSource = "embedding_search"

AllMatchersEmpty ==
    /\ trace.lexical = 1 /\ Len(faq_matches) = 0
    /\ trace.primary = 1 /\ trace.primCount = 0
    /\ trace.secondary = 1 /\ Len(search_results) = 0

\* C9: when the lexical matcher and both semantic searches return nothing, the
\* response is the one canned text, whatever the query, and the generation
\* service is not invoked.
DefaultResponseIsCanned ==
    AllMatchersEmpty =>
        /\ trace.generate = 0
        /\ response_text = "I don't have specific information about that in my knowledge base. I can help with questions about sending/receiving cryptocurrency, wallet security, transaction fees, and general Palma Wallet features. Would you like to know more about any of these topics?"
        /\ Done => (result.statusCode = 200 /\ ResponseText = response_text)

\* the default response was returned for a query no store had an answer to,
\* without any store failing
DefaultReturned ==
    /\ Succeeded
    /\ AllMatchersEmpty
    /\ Len(faqTable) > 0
    /\ trace.lexFault = 0 /\ trace.primFault = 0 /\ trace.secFault = "none"
    /\ ResponseSource = "default_response"

SpecSourceOfTier(tier) ==
    CASE tier = "lexical" -> "lexical_match"
      [] tier = "primary" -> "semantic_primary"
      [] tier = "secondary" -> "semantic_secondary"
      [] tier = "default" -> "default"
      [] OTHER -> None

SourceOfTier(tier) ==
    CASE tier = "lexical" -> "faq_direct_match"
      [] tier \in {"primary", "secondary"} -> "embedding_search"
      [] tier = "default" -> "default_response"
      [] OTHER -> None

MatcherKind(tier) == IF tier \in {"primary", "secondary"} THEN "semantic" ELSE tier

-----------------------------------------------------------------------------
(* Input validation *)

\* the request carries no query, or an empty one
RequestLacksQuery(event) ==
    IF "body" \in DOMAIN event
    THEN event.body \in {None, "{}", "{\"query\": \"\"}"}
    ELSE Get(event, "query", "") = ""

\* C11: a request whose query is missing or empty is rejected with a client
\* error, and no lexical scan, embedding call, semantic search, generation call
\* or log append is performed for it.
EmptyQueryRejected ==
    (Done /\ RequestLacksQuery(trace.event)) =>
        /\ result.statusCode = 400
        /\ trace.lexical = 0 /\ trace.embed = 0 /\ trace.primary = 0
        /\ trace.secondary = 0 /\ trace.generate = 0 /\ trace.log = 0
        /\ queryLog = EmptyTable

-----------------------------------------------------------------------------
(* Embedder *)

\* No request is in progress: the library functions are called directly.
IdleHandler ==
    /\ tables = {FAQ_TABLE, QUERY_LOG_TABLE}
    /\ queryLog = EmptyTable
    /\ inbox = <<>>
    /\ pc = "idle"
    /\ body = [query |-> ""]
    /\ faq_matches = <<>>
    /\ query_embedding = NoEmbedding
    /\ search_results = <<>>
    /\ response_text = ""
    /\ source = None
    /\ query_id = None
    /\ result = NoResult
    /\ trace = NoTrace
    /\ resolved = {}

handlerVars == <<variant, tables, queryLog, inbox, pc, body, faq_matches,
                 query_embedding, search_results, response_text, source, query_id,
                 result, trace, resolved>>

MaxCalls == 2

EmbedTexts == {"", "hello", "seed phrase"}

InitEmbed ==
    /\ IdleHandler
    /\ variant = "query_lambda"
    /\ faqTable \in FaqTables
    /\ snapshots \in SnapshotSets
    /\ call = NoCall
    /\ memo = {}
    /\ processed = <<>>

\* create_simple_embedding(text, dimension) is called
EmbedText ==
    /\ Cardinality(memo) < MaxCalls
    /\ \E text \in EmbedTexts, dimension \in 0..EmbDim :
       \E out \in { create_simple_embedding(text, dimension) } :
            /\ call' = [fn |-> "create_simple_embedding", text |-> text,
                        dimension |-> dimension, out |-> out]
            /\ memo' = memo \cup { [nth |-> Cardinality(memo) + 1, text |-> text,
                                    dimension |-> dimension, out |-> out,
                                    stores |-> <<faqTable, snapshots>>] }
    /\ UNCHANGED <<handlerVars, processed, faqTable, snapshots>>

\* another process replaces the contents of the stores
StoresChange ==
    /\ faqTable' \in FaqTables
    /\ snapshots' \in SnapshotSets
    /\ <<faqTable', snapshots'>> # <<faqTable, snapshots>>
    /\ UNCHANGED <<handlerVars, processed, call, memo>>

NextEmbed ==
    \/ EmbedText
    \/ StoresChange

SpecEmbed == InitEmbed /\ [][NextEmbed]_vars

FallbackEmbeddingTerminates ==
    (call.fn = "create_simple_embedding" /\ call.dimension >= 1) =>
        /\ ~call.out.exc
        /\ Len(call.out.val.num) = call.dimension
        /\ \A i \in 1..call.dimension : call.out.val.num[i] # 0
        /\ call.out.val.den2 > 0
        /\ \A k \in 0..(call.dimension - 1) :
              Len(AppendSamples(SubSeq(call.out.val.num, 1, k),
                                Sha256Hex(Sha256Hex(call.text) \o DecStr(k)),
                                call.dimension)) > k

\* an embedding longer than one digest was built: a re-digest round ran
RedigestedEmbeddingBuilt ==
    /\ call.fn = "create_simple_embedding"
    /\ call.dimension > DigestBytes
    /\ Len(call.out.val.num) = call.dimension
    /\ ~call.out.exc

\* C12: get_embeddings does not raise because of the embedding service:
\* whenever the call to the service fails, the result is the fallback
\* embedding of the same text, and the request goes on with it.
EmbedderFallsBack ==
    trace.embedFailed =>
        /\ ~create_simple_embedding(body.query, EmbDim).exc
        /\ query_embedding = create_simple_embedding(body.query, EmbDim).val
        /\ pc \in {"primary", "secondary", "generate", "log", "done"}
        /\ Done => result.statusCode = 200

\* the service failed and the primary search is about to run on the fallback
FallbackEmbeddingUsed ==
    /\ trace.embedFailed
    /\ pc = "primary"
    /\ Len(query_embedding.num) = EmbDim
    /\ query_embedding = create_simple_embedding(body.query, EmbDim).val

-----------------------------------------------------------------------------
(* SimilarityScorer *)

MaxLen == 2

Components == {-1, 0, 2}

NumberKinds == {"float", "Decimal"}

\* the vectors of at most MaxLen components, of floats or of Decimals
LabVectors ==
    { [num |-> q, den2 |-> 1, kind |-> k] :
        q \in UNION { [1..n -> Components] : n \in 0..MaxLen }, k \in NumberKinds }

InitCosine ==
    /\ IdleHandler
    /\ variant = "query_lambda"
    /\ faqTable = <<>>
    /\ snapshots = <<>>
    /\ call = NoCall
    /\ memo = {}
    /\ processed = <<>>

\* cosine_similarity(vec_a, vec_b) is called
CosineCall ==
    /\ \E vec_a \in LabVectors, vec_b \in LabVectors :
          call' = [fn |-> "cosine_similarity", vec_a |-> vec_a, vec_b |-> vec_b,
                   out |-> cosine_similarity(vec_a, vec_b)]
    /\ UNCHANGED <<handlerVars, processed, faqTable, snapshots, memo>>

NextCosine == CosineCall

SpecCosine == InitCosine /\ [][NextCosine]_vars

PaddedTo(vec, n) == [vec EXCEPT !.num = PadTo(vec.num, n)]

HasZeroNorm(vec) == SumSquares(vec.num) = 0

\* C14: cosine_similarity never fails: vectors of unequal length are scored
\* as the pair with the shorter one right-padded with zeros, and the result is
\* 0 when either vector is empty or has zero norm.
CosineNeverFails ==
    call.fn = "cosine_similarity" =>
        /\ ~call.out.exc
        /\ (Len(call.vec_a.num) > 0 /\ Len(call.vec_b.num) > 0) =>
              call.out = cosine_similarity(
                             PaddedTo(call.vec_a, Max(Len(call.vec_a.num), Len(call.vec_b.num))),
                             PaddedTo(call.vec_b, Max(Len(call.vec_a.num), Len(call.vec_b.num))))
        /\ (HasZeroNorm(call.vec_a) \/ HasZeroNorm(call.vec_b)) => call.out.val = ZeroSim

-----------------------------------------------------------------------------
(* LexicalMatcher *)

MaxItems == 3

ItemSendUpper ==
    [id |-> "faq_5", question |-> "HOW DO I SEND CRYPTO?", answer |-> "Use Send.",
     keywords |-> <<>>]

ItemCharges ==
    [id |-> "en_6", question |-> "Charges", answer |-> "See the fee table.",
     keywords |-> <<"fee", "fees", "gas", "cost", "costs", "network">>]

ItemPricing ==
    [id |-> "en_7", question |-> "Pricing", answer |-> "Prices vary.",
     keywords |-> <<"fee", "fees", "gas", "cost", "costs", "network">>]

ItemSeed ==
    [id |-> "en_8", question |-> "My seed phrase", answer |-> "Keep it secret.",
     keywords |-> <<>>]

ItemGas ==
    [id |-> "en_9", question |-> "Gas", answer |-> "Gas pays the network.",
     keywords |-> <<"gas", "costs">>]

ItemTransfer ==
    [id |-> "en_10", question |-> "How to send and receive crypto",
     answer |-> "Use Send or Receive.", keywords |-> <<>>]

\* the chunks of the lexical tiering example
ChunkSendQ == [question |-> "How do I send crypto?"]

ChunkBackupQ == [question |-> "How do I backup my wallet?"]

LabCatalogue ==
    <<ItemSend, ItemSendUpper, ItemBackup, ItemFees, ItemGas, ItemCharges, ItemPricing,
      ItemSeed, ItemTransfer>>

\* the items of `catalogue` at the positions `chosen`, in their order
Pick(catalogue, chosen) ==
    LET RECURSIVE P(_)
        P(i) == IF i > Len(catalogue) THEN <<>>
                ELSE (IF i \in chosen THEN <<catalogue[i]>> ELSE <<>>) \o P(i + 1)
    IN  P(1)

\* the tables of at most MaxItems items of the catalogue, and the example
LabTables ==
    { Pick(LabCatalogue, chosen) :
        chosen \in { c \in SUBSET (1..Len(LabCatalogue)) : Cardinality(c) <= MaxItems } }
    \cup { <<ChunkSendQ, ChunkBackupQ>> }

LabQueries ==
    { "how do i send crypto?", "how do i send crypto", "HOW DO I BACKUP MY WALLET?",
      "network fees and gas costs", "seed phrase" }

InitLexical ==
    /\ IdleHandler
    /\ variant \in Variants
    /\ faqTable \in LabTables
    /\ snapshots = <<>>
    /\ call = NoCall
    /\ memo = {}
    /\ processed = <<>>

\* search_faq_table(query) is called
LexicalCall ==
    /\ call = NoCall
    /\ \E query \in LabQueries, fail_at \in FailPoints(faqTable) :
          call' = [fn |-> "search_faq_table", query |-> query, fail_at |-> fail_at,
                   out |-> search_faq_table(variant, query, faqTable, TRUE, fail_at)]
    /\ UNCHANGED <<handlerVars, processed, faqTable, snapshots, memo>>

NextLexical == LexicalCall

SpecLexical == InitLexical /\ [][NextLexical]_vars

\* the scan of the call completed
LexicalScanCompleted == call.fn = "search_faq_table" /\ call.fail_at = 0

\* the items of the table whose question equals the query, case-insensitively
ExactChunks ==
    LET Equals(item) == Lower(Get(item, "question", "")) = Lower(call.query)
    IN  SelectList(faqTable, Equals)

\* C15: if the question of at least one scanned chunk equals the query
\* case-insensitively, the lexical matcher returns exactly those chunks, in
\* scan order, and no chunk matched by score or keyword.
ExactMatchesReturnedAlone ==
    (LexicalScanCompleted /\ Len(ExactChunks) > 0) => call.out = ExactChunks

\* the score and match type the query_lambda copy gives an item for the query
ScoreOf(item) == ScoreItem(Lower(call.query), item)

PartialChunks == { i \in 1..Len(faqTable) : ScoreOf(faqTable[i]).score2 >= 6 }

KeywordChunks ==
    { i \in 1..Len(faqTable) :
        /\ ScoreOf(faqTable[i]).score2 > 0
        /\ ScoreOf(faqTable[i]).score2 < 6
        /\ ScoreOf(faqTable[i]).type = "keyword_only" }

Returned1(out) == { out[k] : k \in 1..Len(out) }

NonIncreasing(out) ==
    \A k \in 1..(Len(out) - 1) : ScoreOf(out[k]).score2 >= ScoreOf(out[k + 1]).score2

NoExactMatch == variant = "query_lambda" /\ LexicalScanCompleted /\ Len(ExactChunks) = 0

\* C16: when no chunk matches exactly, the lexical matcher returns all chunks
\* whose score is at least 3 in non-increasing score order if there is any;
\* otherwise the one highest-scoring keyword-only chunk if there is any;
\* otherwise nothing.  A chunk whose score is above 0 and below 3 and whose
\* match type is not keyword-only is never returned.
PartialThenBestKeyword ==
    NoExactMatch =>
        /\ PartialChunks # {} =>
              /\ Len(call.out) = Cardinality(PartialChunks)
              /\ Returned1(call.out) = { faqTable[i] : i \in PartialChunks }
              /\ NonIncreasing(call.out)
        /\ (PartialChunks = {} /\ KeywordChunks # {}) =>
              /\ Len(call.out) = 1
              /\ call.out[1] \in { faqTable[i] : i \in KeywordChunks }
              /\ \A i \in KeywordChunks :
                    ScoreOf(call.out[1]).score2 >= ScoreOf(faqTable[i]).score2
        /\ (PartialChunks = {} /\ KeywordChunks = {}) => call.out = <<>>
        /\ \A k \in 1..Len(call.out) :
              ~(/\ ScoreOf(call.out[k]).score2 > 0
                /\ ScoreOf(call.out[k]).score2 < 6
                /\ ScoreOf(call.out[k]).type # "keyword_only")

\* the best keyword-only chunk was returned although a lower-scoring one was
\* scanned before it, and a chunk that scored 2 by word overlap was left out
BestKeywordChunkReturned ==
    /\ NoExactMatch
    /\ PartialChunks = {}
    /\ Cardinality(KeywordChunks) >= 2
    /\ call.out = <<ItemGas>>
    /\ faqTable[1] = ItemFees
    /\ ScoreOf(ItemFees).score2 = 1 /\ ScoreOf(ItemGas).score2 = 2

\* two chunks of different score were returned in the order of their scores,
\* which is not their scan order
PartialChunksReordered ==
    /\ NoExactMatch
    /\ call.out = <<ItemTransfer, ItemSend>>
    /\ ScoreOf(ItemTransfer).score2 = 10 /\ ScoreOf(ItemSend).score2 = 6

\* every returned chunk was matched through its declared keywords alone
OnlyKeywordChunksReturned ==
    /\ variant = "query_lambda"
    /\ call.fn = "search_faq_table"
    /\ Len(call.out) > 0
    /\ \A k \in 1..Len(call.out) :
          ~ScoreOf(call.out[k]).exact /\ ScoreOf(call.out[k]).type = "keyword_only"

\* C17: whenever the chunks returned by the lexical matcher were matched only
\* through their declared keywords, the result contains at most one chunk,
\* however many keywords matched per chunk.
KeywordOnlyCappedAtOne ==
    OnlyKeywordChunksReturned => Len(call.out) <= 1

\* the call of the lexical tiering example
ExampleCall ==
    /\ variant = "query_lambda"
    /\ call.fn = "search_faq_table"
    /\ call.fail_at = 0
    /\ call.query = "how do i send crypto"
    /\ faqTable = <<ChunkSendQ, ChunkBackupQ>>

\* C18 (as stated): for the chunks "How do I send crypto?" and "How do I
\* backup my wallet?" and the query "how do i send crypto", the first chunk is
\* classified as an exact match and is the only chunk returned.
ExampleIsExactMatch ==
    ExampleCall => (ScoreOf(ChunkSendQ).exact /\ call.out = <<ChunkSendQ>>)

\* C18 (amended): for these chunks and this query the first chunk is not an
\* exact match (its question ends with "?"); it is an action match of score 3
\* through the word "send", the second chunk scores 0, and the first chunk is
\* the only chunk returned.
ExampleIsActionMatch ==
    ExampleCall =>
        /\ ~ScoreOf(ChunkSendQ).exact
        /\ ScoreOf(ChunkSendQ).type = "action_match"
        /\ ScoreOf(ChunkSendQ).score2 = 6
        /\ ScoreOf(ChunkBackupQ).score2 = 0
        /\ call.out = <<ChunkSendQ>>

\* the example was run and returned the first chunk
ExampleAnswered == ExampleCall /\ call.out = <<ChunkSendQ>>

-----------------------------------------------------------------------------
(* The semantic searches, called directly on bounded candidate lists: the    *)
(* FAQ table holds Decimal embeddings (update_faq_table converts them and a  *)
(* scan returns every number as a Decimal), a snapshot holds floats.         *)

MaxCandidates == 3

\* a candidate with the embedding `nums`, of the number kind of its store
Candidate(id, nums, kind) == [id |-> id, embedding |-> [num |-> nums, den2 |-> 1, kind |-> kind]]

\* similarities to <<3, 4>>: 0.43, 0.6, -, 0.8, 1, -, 0.96, 0.8
\* similarities to <<1, 0>>: 0.98, 1, -, 0, 0.6, -, 0.8, 0
CandidateCatalogue(kind) ==
    << Candidate("c1", <<5, -1>>, kind), Candidate("c2", <<1, 0>>, kind),
       [id |-> "c3"], Candidate("c4", <<0, 1>>, kind),
       Candidate("c5", <<3, 4>>, kind), Candidate("c6", <<>>, kind),
       Candidate("c7", <<4, 3>>, kind), Candidate("c8", <<0, 2>>, kind) >>

\* the lists of at most MaxCandidates candidates of the catalogue, and one
\* longer list in which more than MAX_RESULTS candidates reach the threshold
CandidateLists(kind) ==
    { Pick(CandidateCatalogue(kind), chosen) :
        chosen \in { c \in SUBSET (1..Len(CandidateCatalogue(kind))) :
                        Cardinality(c) <= MaxCandidates } }
    \cup { Pick(CandidateCatalogue(kind), {2, 3, 4, 5, 7, 8}) }

QueryVectors == { Vec(<<3, 4>>), Vec(<<1, 0>>) }

OlderSnapshot == [key |-> "embeddings/embeddings-kb-0.json", modified |-> 1, body |-> <<ChunkSwap>>]

InitSemantic ==
    /\ IdleHandler
    /\ variant \in Variants
    /\ \/ faqTable \in CandidateLists("Decimal") /\ snapshots = <<>>
       \/ /\ faqTable = <<>>
          /\ \E candidates \in CandidateLists("float") :
                snapshots = <<OlderSnapshot,
                              [key |-> "embeddings/embeddings-kb-1.json", modified |-> 2,
                               body |-> candidates]>>
    /\ call = NoCall
    /\ memo = {}
    /\ processed = <<>>

\* semantic_search_faq_table(query_embedding) is called
SemanticTableCall ==
    /\ call = NoCall
    /\ snapshots = <<>>
    /\ \E query_vec \in QueryVectors, fail_at \in FailPoints(faqTable) :
          call' = [fn |-> "semantic_search_faq_table", query_vec |-> query_vec,
                   failed |-> fail_at # 0, candidates |-> faqTable,
                   out |-> semantic_search_faq_table(query_vec, faqTable, TRUE, fail_at)]
    /\ UNCHANGED <<handlerVars, processed, faqTable, snapshots, memo>>

\* search_embeddings_s3(query, query_embedding) is called
SemanticSnapshotCall ==
    /\ call = NoCall
    /\ Len(snapshots) > 0
    /\ \E query_vec \in QueryVectors, fault \in S3Faults :
          call' = [fn |-> "search_embeddings_s3", query_vec |-> query_vec,
                   failed |-> fault # "none",
                   candidates |-> SortDesc(list_objects_v2(snapshots),
                                           ModifiedLess)[1].body,
                   out |-> search_embeddings_s3(query_vec, snapshots, fault)]
    /\ UNCHANGED <<handlerVars, processed, faqTable, snapshots, memo>>

NextSemantic ==
    \/ SemanticTableCall
    \/ SemanticSnapshotCall

SpecSemantic == InitSemantic /\ [][NextSemantic]_vars

\* Snapshots of several documents: the i-th document name, in key order
DocumentNames == <<"about", "fees", "one", "wallet", "zcash">>

\* the snapshot of the i-th document written at time t; its one chunk
\* qualifies for the query vectors
SnapshotOf(i, t) ==
    [key |-> "embeddings/embeddings-" \o DocumentNames[i] \o "-20240101-00000" \o DecStr(t)
                 \o ".json",
     modified |-> t,
     body |-> <<Candidate("c" \o DecStr(i), <<3, 4>>, "float")>>]

\* one to MaxKeys + 1 documents were ingested, one after the other, in any
\* order of their names
InitSnapshot ==
    /\ IdleHandler
    /\ variant \in Variants
    /\ faqTable = <<>>
    /\ \E n \in 1..(MaxKeys + 1) :
       \E times \in [1..n -> 1..(MaxKeys + 1)] :
          /\ \A i \in 1..n, j \in 1..n : i # j => times[i] # times[j]
          /\ snapshots = [i \in 1..n |-> SnapshotOf(i, times[i])]
    /\ call = NoCall
    /\ memo = {}
    /\ processed = <<>>

NextSnapshot == SemanticSnapshotCall

SpecSnapshot == InitSnapshot /\ [][NextSnapshot]_vars

\* the object under the embeddings prefix with the greatest last-modified time
LatestSnapshot ==
    CHOOSE o \in { snapshots[i] : i \in 1..Len(snapshots) } :
        \A i \in 1..Len(snapshots) : snapshots[i].modified <= o.modified

\* C35: the secondary search scores the chunks of exactly one snapshot, the
\* object with the greatest last-modified time under the embeddings prefix
\* when the search runs; a chunk that is only in an older snapshot is never
\* a candidate and never returned.
OnlyLatestSnapshotScored ==
    (call.fn = "search_embeddings_s3" /\ ~call.failed) =>
        /\ call.candidates = LatestSnapshot.body
        /\ \A k \in 1..Len(call.out) :
              \E j \in 1..Len(LatestSnapshot.body) :
                 call.out[k].item = LatestSnapshot.body[j]

\* a semantic search was called and its store answered every request
SemanticSearchCompleted ==
    call.fn \in {"semantic_search_faq_table", "search_embeddings_s3"} /\ ~call.failed

HasEmbedding(item) == "embedding" \in DOMAIN item /\ Len(item.embedding.num) > 0

\* the cosine of the angle between the query embedding and the candidate's
SimilarityOf(item) == cosine_similarity(Vec(call.query_vec.num), Vec(item.embedding.num)).val

\* the candidate has an embedding and its similarity is at least the threshold
Qualifies(item) == HasEmbedding(item) /\ AtLeastThreshold(SimilarityOf(item))

QualifyingCandidates == { i \in 1..Len(call.candidates) : Qualifies(call.candidates[i]) }

ReturnedItems == { call.out[k].item : k \in 1..Len(call.out) }

\* C19: a semantic search returns a candidate only if it has an embedding and
\* its similarity to the query embedding is at least the threshold; a
\* candidate whose similarity equals the threshold is included (when no more
\* than the limit qualify, every qualifying candidate is returned), one below
\* the threshold or without an embedding is never returned.
ThresholdDecidesInclusion ==
    SemanticSearchCompleted =>
        /\ \A item \in ReturnedItems : Qualifies(item)
        /\ Cardinality(QualifyingCandidates) <= MAX_RESULTS =>
              \A i \in QualifyingCandidates : call.candidates[i] \in ReturnedItems

Min(a, b) == IF a <= b THEN a ELSE b

\* C20: a semantic search returns the top results by similarity: the list is
\* in non-increasing similarity order, its length is the smaller of the limit
\* and the number of qualifying candidates, and no qualifying candidate left
\* out has a strictly higher similarity than a returned one.
TopResultsReturned ==
    SemanticSearchCompleted =>
        /\ \A k \in 1..(Len(call.out) - 1) :
              ~SimLess(call.out[k].similarity, call.out[k + 1].similarity)
        /\ Len(call.out) = Min(MAX_RESULTS, Cardinality(QualifyingCandidates))
        /\ \A i \in QualifyingCandidates :
              call.candidates[i] \notin ReturnedItems =>
                  \A k \in 1..Len(call.out) :
                      ~SimLess(call.out[k].similarity, SimilarityOf(call.candidates[i]))

-----------------------------------------------------------------------------
(* FQNHelper.map, called directly on bounded strings *)

\* str.split(sep): the parts of s between the occurrences of sep
RECURSIVE SplitOn(_, _)
SplitOn(s, sep) ==
    IF Len(s) = 0 THEN <<"">>
    ELSE IF CharAt(s, 1) = sep THEN <<"">> \o SplitOn(Tail(s), sep)
    ELSE [SplitOn(Tail(s), sep) EXCEPT ![1] = CharAt(s, 1) \o @]

\* sep.join(parts)
RECURSIVE JoinWith(_, _)
JoinWith(parts, sep) ==
    IF Len(parts) = 0 THEN ""
    ELSE IF Len(parts) = 1 THEN parts[1]
    ELSE parts[1] \o sep \o JoinWith(Tail(parts), sep)

FQN(namespace, name) == [namespace |-> namespace, name |-> name]

\* a plausible slip: the name is everything after the first '.'
map_first(raw_fqn) ==
    IF raw_fqn = "" THEN Raised
    ELSE IF Len(SplitOn(raw_fqn, ".")) = 1
    THEN Returned(FQN("", SplitOn(raw_fqn, ".")[1]))
    ELSE Returned(FQN(SplitOn(raw_fqn, ".")[1], JoinWith(Tail(SplitOn(raw_fqn, ".")), ".")))

\* a plausible slip: the namespace is the first part only
map_outer(raw_fqn) ==
    IF raw_fqn = "" THEN Raised
    ELSE IF Len(SplitOn(raw_fqn, ".")) = 1
    THEN Returned(FQN("", SplitOn(raw_fqn, ".")[1]))
    ELSE Returned(FQN(SplitOn(raw_fqn, ".")[1],
                      SplitOn(raw_fqn, ".")[Len(SplitOn(raw_fqn, "."))]))

\* FQNHelper.map of a string (a value that is not a string raises as "" does)
map(raw_fqn) ==
    IF raw_fqn = "" THEN Raised
    ELSE IF Len(SplitOn(raw_fqn, ".")) = 1
    THEN Returned(FQN("", SplitOn(raw_fqn, ".")[1]))
    ELSE Returned(FQN(JoinWith(SubSeq(SplitOn(raw_fqn, "."), 1,
                                      Len(SplitOn(raw_fqn, ".")) - 1), "."),
                      SplitOn(raw_fqn, ".")[Len(SplitOn(raw_fqn, "."))]))

\* a call that raised an exception of the class `kind`
RaisedKind(kind) == [exc |-> TRUE, val |-> <<>>, kind |-> kind]

\* A Python object is [type, truthy] and, for a str, its characters in `str`.
PyStr(s) == [type |-> "str", truthy |-> s # "", str |-> s]

PyObject(type, truthy) == [type |-> type, truthy |-> truthy]

\* a plausible slip: only `not raw_fqn` is tested, and another object fails
\* in raw_fqn.split
map_object_unchecked(object) ==
    IF ~object.truthy THEN RaisedKind("ValueError")
    ELSE IF object.type # "str" THEN RaisedKind("AttributeError")
    ELSE map(object.str)

\* FQNHelper.map of any object:
\* if not isinstance(raw_fqn, str) or not raw_fqn: raise ValueError
map_object(object) ==
    IF object.type # "str" \/ ~object.truthy THEN RaisedKind("ValueError")
    ELSE map(object.str)

MaxFqnLen == 4

FqnAlphabet == {"m", "C", "."}

\* the strings over the alphabet of at most n characters
RECURSIVE StringsUpTo(_)
StringsUpTo(n) ==
    IF n = 0 THEN {""}
    ELSE StringsUpTo(n - 1) \cup { s \o c : s \in StringsUpTo(n - 1), c \in FqnAlphabet }

RawFqns == StringsUpTo(MaxFqnLen) \cup {"module.sub.Class", "Class"}

InitFqn ==
    /\ IdleHandler
    /\ variant = "query_lambda"
    /\ faqTable = <<>>
    /\ snapshots = <<>>
    /\ call = NoCall
    /\ memo = {}
    /\ processed = <<>>

\* FQNHelper.map(raw_fqn) is called
MapCall ==
    /\ call = NoCall
    /\ \E raw_fqn \in RawFqns :
          call' = [fn |-> "FQNHelper.map", raw_fqn |-> raw_fqn, out |-> map(raw_fqn)]
    /\ UNCHANGED <<handlerVars, processed, faqTable, snapshots, memo>>

\* the objects FQNHelper.map is called with: None, 0, 5, [], ['m'], b'', b'm.C'
\* and strings
PyObjects ==
    { PyObject("NoneType", FALSE), PyObject("int", FALSE), PyObject("int", TRUE),
      PyObject("list", FALSE), PyObject("list", TRUE),
      PyObject("bytes", FALSE), PyObject("bytes", TRUE),
      PyStr(""), PyStr("Class"), PyStr("module.sub.Class") }

\* FQNHelper.map(object) is called with an object of any type
MapObjectCall ==
    /\ call = NoCall
    /\ \E object \in PyObjects :
          call' = [fn |-> "FQNHelper.map(object)", object |-> object,
                   out |-> map_object(object)]
    /\ UNCHANGED <<handlerVars, processed, faqTable, snapshots, memo>>

NextFqn ==
    \/ MapCall
    \/ MapObjectCall

SpecFqn == InitFqn /\ [][NextFqn]_vars

HasDot(s) == \E i \in 1..Len(s) : CharAt(s, i) = "."

\* C30: FQNHelper.map of a non-empty string returns: without a '.', the empty
\* namespace and the whole string as name; with a '.', the part before the
\* last '.' as namespace and the part after it as name.  The name never
\* contains a '.'.
MapSplitsAtLastDot ==
    (call.fn = "FQNHelper.map" /\ call.raw_fqn # "") =>
        /\ ~call.out.exc
        /\ ~HasDot(call.out.val.name)
        /\ IF HasDot(call.raw_fqn)
           THEN call.raw_fqn = call.out.val.namespace \o "." \o call.out.val.name
           ELSE call.out.val.namespace = "" /\ call.out.val.name = call.raw_fqn

\* the string of the test was mapped, and so was one that ends with '.'
DottedNameMapped ==
    /\ call.fn = "FQNHelper.map"
    /\ \/ call.raw_fqn = "module.sub.Class" /\ call.out.val = FQN("module.sub", "Class")
       \/ call.raw_fqn = "m.C."

\* C31: FQNHelper.map raises ValueError, and returns no FQN, for the empty
\* string and for every argument that is not a string.
InvalidInputRaisesValueError ==
    (/\ call.fn = "FQNHelper.map(object)"
     /\ (call.object.type # "str" \/ call.object.str = "")) =>
        /\ call.out.exc
        /\ call.out.kind = "ValueError"
        /\ call.out.val = <<>>

\* map was called with a non-empty bytes object and raised
BytesRejected ==
    /\ call.fn = "FQNHelper.map(object)"
    /\ call.object = PyObject("bytes", TRUE)
    /\ call.out.exc

\* the raw string an FQN stands for
RawOf(fqn) == IF fqn.namespace = "" THEN fqn.name ELSE fqn.namespace \o "." \o fqn.name

\* C38 as stated: on non-empty strings map is injective: no other raw string
\* has the FQN returned for this one, and the raw string is recovered from the
\* namespace and the name.
MapInjective ==
    (call.fn = "FQNHelper.map" /\ call.raw_fqn # "") =>
        /\ \A other \in RawFqns \ {"", call.raw_fqn} : map(other) # call.out
        /\ RawOf(call.out.val) = call.raw_fqn

StartsWithDot(s) == Len(s) > 0 /\ CharAt(s, 1) = "."

\* C38 amended: on non-empty strings that do not start with '.', map is
\* injective: no other such string has the FQN returned for this one, and the
\* raw string is recovered from the namespace and the name.
MapInjectiveWithoutLeadingDot ==
    (call.fn = "FQNHelper.map" /\ call.raw_fqn # "" /\ ~StartsWithDot(call.raw_fqn)) =>
        /\ \A other \in RawFqns \ {"", call.raw_fqn} :
              ~StartsWithDot(other) => map(other) # call.out
        /\ RawOf(call.out.val) = call.raw_fqn

\* a string with two adjacent dots was mapped
TwoDotsMapped ==
    /\ call.fn = "FQNHelper.map"
    /\ call.raw_fqn = "m..C"
    /\ call.out.val = FQN("m.", "C")

-----------------------------------------------------------------------------
(* Ingestion: chunk_document.  A document is the decoded JSON object; the    *)
(* k-th chunk without an item id takes the k-th fresh uuid after `seed`.     *)

Uuid(n) == "uuid-" \o DecStr(n)

ChunkText(section_title, item) ==
    "Section: " \o section_title \o "\nQuestion: " \o Get(item, "question", "")
        \o "\nAnswer: " \o Get(item, "answer", "")

\* a plausible slip: every chunk takes the id and title of the first section
ChunkOfFirstSection(content, section, item, n) ==
    [chunk_id |-> Get(item, "id", Uuid(n)),
     text |-> ChunkText(Get(content.sections[1], "sectionTitle", "Untitled Section"), item),
     section_id |-> Get(content.sections[1], "sectionId", "unknown"),
     section_title |-> Get(content.sections[1], "sectionTitle", "Untitled Section"),
     question |-> Get(item, "question", ""),
     answer |-> Get(item, "answer", ""),
     keywords |-> Get(item, "keywords", <<>>),
     source_document |-> Get(Get(content, "metadata", EmptyTable), "documentId", "unknown"),
     document_title |-> Get(Get(content, "metadata", EmptyTable), "source",
                            "Palma Wallet Knowledge Base")]

\* the chunk of one item
ChunkOf(content, section, item, n) ==
    [chunk_id |-> Get(item, "id", Uuid(n)),
     text |-> ChunkText(Get(section, "sectionTitle", "Untitled Section"), item),
     section_id |-> Get(section, "sectionId", "unknown"),
     section_title |-> Get(section, "sectionTitle", "Untitled Section"),
     question |-> Get(item, "question", ""),
     answer |-> Get(item, "answer", ""),
     keywords |-> Get(item, "keywords", <<>>),
     source_document |-> Get(Get(content, "metadata", EmptyTable), "documentId", "unknown"),
     document_title |-> Get(Get(content, "metadata", EmptyTable), "source",
                            "Palma Wallet Knowledge Base")]

\* the chunks of the items of one section
SectionChunks(content, section, seed) ==
    [j \in 1..Len(Get(section, "content", <<>>)) |->
        ChunkOf(content, section, section.content[j], seed + j)]

RECURSIVE ChunkSections(_, _, _)
ChunkSections(content, sections, seed) ==
    IF Len(sections) = 0 THEN <<>>
    ELSE SectionChunks(content, Head(sections), seed)
            \o ChunkSections(content, Tail(sections),
                             seed + Len(Get(Head(sections), "content", <<>>)))

chunk_document(content, seed) ==
    IF "sections" \notin DOMAIN content THEN <<>>
    ELSE ChunkSections(content, content.sections, seed)

-----------------------------------------------------------------------------
(* Documents of the ingestion checks *)

DocSend ==
    [id |-> "en_1", question |-> "How do I send crypto?", answer |-> "Tap Send.",
     keywords |-> <<"send">>]

DocFees == [question |-> "Fees", answer |-> "Fees are low."]

DocPalma == [id |-> "faq_9", question |-> "What is Palma?", answer |-> ""]

SecBasics == [sectionId |-> "basics", sectionTitle |-> "Basics", content |-> <<DocSend, DocFees>>]

SecAbout == [sectionId |-> "about", sectionTitle |-> "About", content |-> <<DocPalma>>]

SecUntitled == [content |-> <<DocFees>>]

SecEmpty == [sectionId |-> "empty", sectionTitle |-> "Empty", content |-> <<>>]

SecNoContent == [sectionId |-> "todo", sectionTitle |-> "To do"]

SectionCatalogue == {SecBasics, SecAbout, SecUntitled, SecEmpty, SecNoContent}

MaxSections == 2

RECURSIVE SeqsUpTo(_, _)
SeqsUpTo(S, n) ==
    IF n = 0 THEN { <<>> }
    ELSE SeqsUpTo(S, n - 1) \cup { Append(q, x) : q \in SeqsUpTo(S, n - 1), x \in S }

Metadatas ==
    { [documentId |-> "kb-1", source |-> "Palma KB"], [documentId |-> "kb-2"] }

LabDocuments ==
    { [metadata |-> m, sections |-> q] : m \in Metadatas, q \in SeqsUpTo(SectionCatalogue, MaxSections) }
    \cup { [sections |-> q] : q \in SeqsUpTo(SectionCatalogue, MaxSections) }
    \cup { EmptyTable, [metadata |-> [documentId |-> "kb-1", source |-> "Palma KB"]],
           [title |-> "Release notes", items |-> <<DocSend>>] }

UuidSeeds == {0, 10}

InitChunk ==
    /\ IdleHandler
    /\ variant = "query_lambda"
    /\ faqTable = <<>>
    /\ snapshots = <<>>
    /\ call = NoCall
    /\ memo = {}
    /\ processed = <<>>

\* chunk_document(content) is called
ChunkCall ==
    /\ call = NoCall
    /\ \E content \in LabDocuments, seed \in UuidSeeds :
          call' = [fn |-> "chunk_document", content |-> content, seed |-> seed,
                   out |-> chunk_document(content, seed)]
    /\ UNCHANGED <<handlerVars, processed, faqTable, snapshots, memo>>

NextChunk == ChunkCall

SpecChunk == InitChunk /\ [][NextChunk]_vars

ItemsOf(section) == Get(section, "content", <<>>)

\* the number of items in the sections before the i-th
RECURSIVE ItemsBefore(_, _)
ItemsBefore(sections, i) ==
    IF i <= 1 THEN 0 ELSE ItemsBefore(sections, i - 1) + Len(ItemsOf(sections[i - 1]))

-----------------------------------------------------------------------------
(* Ingestion: process_document and update_faq_table.  The stores are passed  *)
(* as st = [tables, faqTable, snapshots, processed]; env is what the         *)
(* collaborators do during the invocation: [embed, fault, fail_at, now,      *)
(* seed].                                                                   *)

RAW_PREFIX == "raw-documents/"
\* a plausible slip: the processed chunks are saved under the raw prefix
PROCESSED_UNDER_RAW == "raw-documents/processed/"

PROCESSED_PREFIX == "processed-documents/"
EMBEDDINGS_PREFIX == "embeddings/"

\* datetime.now().strftime("%Y%m%d-%H%M%S") at the n-th second
TimeStamp(n) == "20240101-00000" \o DecStr(n)

\* the positions of the character c in s
PositionsOf(c, s) == { i \in 1..Len(s) : CharAt(s, i) = c }

SetMax(S) == CHOOSE x \in S : \A y \in S : y <= x

SetMin(S) == CHOOSE x \in S : \A y \in S : x <= y

\* os.path.basename(path)
PathBasename(path) ==
    IF PositionsOf("/", path) = {} THEN path
    ELSE SubSeq(path, SetMax(PositionsOf("/", path)) + 1, Len(path))

\* name.split('.')[0]
BeforeFirstDot(name) ==
    IF PositionsOf(".", name) = {} THEN name
    ELSE SubSeq(name, 1, SetMin(PositionsOf(".", name)) - 1)

\* os.path.basename(key).split('.')[0]
Basename(key) == BeforeFirstDot(PathBasename(key))

\* s3.put_object: an object under an existing key is replaced
S3Put(objects, object) ==
    IF \E i \in 1..Len(objects) : objects[i].key = object.key
    THEN [i \in 1..Len(objects) |-> IF objects[i].key = object.key THEN object ELSE objects[i]]
    ELSE Append(objects, object)

\* [Decimal(str(value)) for value in chunk['embedding']]
DecimalOf(embedding) == [embedding EXCEPT !.kind = "Decimal"]

faq_item(chunk, now) ==
    [id |-> chunk.chunk_id, question |-> chunk.question, answer |-> chunk.answer,
     section_id |-> chunk.section_id, section |-> Get(chunk, "section_title", ""),
     keywords |-> Get(chunk, "keywords", <<>>),
     created_at |-> now, updated_at |-> now,
     embedding |-> DecimalOf(chunk.embedding)]

\* faq_table.put_item(Item=faq_item): the item stored under the id is replaced
PutFaqItem(items, item) ==
    IF \E i \in 1..Len(items) : items[i].id = item.id
    THEN [i \in 1..Len(items) |-> IF items[i].id = item.id THEN item ELSE items[i]]
    ELSE Append(items, item)

\* the put_item loop; the fail_at-th put_item raises
RECURSIVE PutChunks(_, _, _, _, _)
PutChunks(items, chunks, k, fail_at, now) ==
    IF k > Len(chunks) THEN [exc |-> FALSE, items |-> items, items_added |-> Len(chunks)]
    ELSE IF k = fail_at THEN [exc |-> TRUE, items |-> items, items_added |-> k - 1]
    ELSE PutChunks(PutFaqItem(items, faq_item(chunks[k], now)), chunks, k + 1, fail_at, now)

\* update_faq_table: [exc, tables, items, items_added]
update_faq_table(st, chunks, env) ==
    IF FAQ_TABLE \notin st.tables /\ env.fault = "create_table"
    THEN [exc |-> TRUE, tables |-> st.tables, items |-> st.faqTable, items_added |-> 0]
    ELSE [tables |-> st.tables \cup {FAQ_TABLE}]
            @@ PutChunks(st.faqTable, chunks, 1,
                         IF env.fault = "put_item" THEN env.fail_at ELSE 0, env.now)

IngestResult(st, statusCode, response_body, chunks) ==
    [st |-> st, chunks |-> chunks,
     result |-> [statusCode |-> statusCode, body |-> response_body]]

IngestError(st, chunks) ==
    IngestResult(st, 500, [message |-> "Error processing document"], chunks)

EmbeddingsKey(key, env) ==
    EMBEDDINGS_PREFIX \o "embeddings-" \o Basename(key) \o "-" \o TimeStamp(env.now) \o ".json"

\* the FAQ table is updated; a failure is logged and counted as 0 items
FaqStep(st, key, chunks, updated) ==
    IngestResult([st EXCEPT !.tables = updated.tables, !.faqTable = updated.items],
                 200,
                 [message |-> "Document processed successfully", documentKey |-> key,
                  chunksCreated |-> Len(chunks),
                  faqItemsAdded |-> IF updated.exc THEN 0 ELSE updated.items_added,
                  embeddingsFile |-> st.snapshots[Len(st.snapshots)].key],
                 chunks)

\* the chunks are embedded and the snapshot is written
EmbedStep(st, key, chunks, embedded, env) ==
    IF \E k \in 1..Len(embedded) : embedded[k].exc THEN IngestError(st, chunks)
    ELSE IF env.fault = "put_embeddings" THEN IngestError(st, chunks)
    ELSE FaqStep([st EXCEPT !.snapshots =
                        S3Put(@, [key |-> EmbeddingsKey(key, env), modified |-> env.now,
                                  body |-> [k \in 1..Len(chunks) |->
                                              chunks[k] @@ [embedding |-> embedded[k].val,
                                                            embedding_timestamp |-> env.now]]])],
                 key, chunks,
                 update_faq_table(st, [k \in 1..Len(chunks) |->
                                          chunks[k] @@ [embedding |-> embedded[k].val]], env))

\* no chunks: 400; else the chunks are saved under PROCESSED_PREFIX
ChunkStep(st, key, chunks, env) ==
    IF Len(chunks) = 0
    THEN IngestResult(st, 400,
                      "No valid content chunks could be extracted from document", chunks)
    ELSE IF env.fault = "put_processed" THEN IngestError(st, chunks)
    ELSE EmbedStep([st EXCEPT !.processed =
                        S3Put(@, [key |-> PROCESSED_PREFIX \o "processed-" \o Basename(key)
                                            \o "-" \o TimeStamp(env.now) \o ".json",
                                  modified |-> env.now, body |-> chunks])],
                   key, chunks,
                   [k \in 1..Len(chunks) |-> get_embeddings(chunks[k].text, env.embed)],
                   env)

\* the document is read from the bucket `raw` (key -> [json, content]) and chunked
ReadStep(st, raw, key, env) ==
    IF key \notin DOMAIN raw \/ env.fault = "get_object" THEN IngestError(st, <<>>)
    ELSE IF ~raw[key].json THEN IngestError(st, <<>>)
    ELSE ChunkStep(st, key, chunk_document(raw[key].content, env.seed), env)

process_document(st, raw, event, env) ==
    IF "Records" \in DOMAIN event
    THEN IF ~StartsWith(event.Records[1].s3.object.key, RAW_PREFIX)
         THEN IngestResult(st, 200, "File not in raw-documents folder, skipping", <<>>)
         ELSE ReadStep(st, raw, event.Records[1].s3.object.key, env)
    ELSE ReadStep(st, raw,
                  Get(event, "key", RAW_PREFIX \o "palma-wallet-knowledge-base.json"), env)

-----------------------------------------------------------------------------
(* Ingestion followed by queries: the events of the inbox are delivered in   *)
(* order, uploads to process_document and requests to the query handler.     *)

S3Event(key) ==
    [Records |-> <<[s3 |-> [bucket |-> [name |-> "palma-wallet-knowledge-base"],
                            object |-> [key |-> key]]]>>]

JsonDocument(content) == [json |-> TRUE, content |-> content]

DocSendV2 ==
    [id |-> "en_1", question |-> "How do I send crypto?", answer |-> "Use the Send tab.",
     keywords |-> <<"send">>]

OneItem(item) ==
    JsonDocument([metadata |-> [documentId |-> "kb-1", source |-> "Palma KB"],
                  sections |-> <<[sectionId |-> "basics", sectionTitle |-> "Basics",
                                  content |-> <<item>>]>>])

\* the objects of the bucket under RAW_PREFIX and elsewhere
RawBucket ==
    [key \in {"raw-documents/one.json", "raw-documents/one-v2.json",
              "raw-documents/fees.json", "raw-documents/about.json",
              "raw-documents/palma-wallet-knowledge-base.json",
              "raw-documents/notes.json", "raw-documents/empty.json",
              "raw-documents/broken.json", "processed-documents/processed-one.json"} |->
        CASE key = "raw-documents/one.json" -> OneItem(DocSend)
          [] key = "raw-documents/one-v2.json" -> OneItem(DocSendV2)
          [] key = "raw-documents/fees.json" -> OneItem(DocFees)
          [] key = "raw-documents/about.json" -> OneItem(DocPalma)
          [] key = "raw-documents/palma-wallet-knowledge-base.json" ->
                JsonDocument([sections |-> <<SecAbout, SecBasics>>])
          [] key = "raw-documents/notes.json" ->
                JsonDocument([title |-> "Release notes", items |-> <<DocSend>>])
          [] key = "raw-documents/empty.json" -> JsonDocument([sections |-> <<SecEmpty>>])
          [] key = "raw-documents/broken.json" -> [json |-> FALSE]
          [] OTHER -> JsonDocument(<<>>)]

UploadEvents ==
    { S3Event(key) : key \in DOMAIN RawBucket \cup {"raw-documents/missing.json"} }
    \cup { [trigger |-> "manual"], [key |-> "raw-documents/one.json"] }

\* uploads of documents with question/answer items
ItemUploadEvents ==
    { S3Event(key) : key \in {"raw-documents/one.json", "raw-documents/fees.json",
                              "raw-documents/about.json"} }
    \cup { [trigger |-> "manual"] }

ReUploadEvents ==
    { S3Event(key) : key \in {"raw-documents/one.json", "raw-documents/one-v2.json",
                              "raw-documents/fees.json", "raw-documents/notes.json"} }

IngestQueries ==
    { [query |-> "How do I send crypto?"], [query |-> "Fees"], [query |-> "What is Palma?"] }

\* an upload alone, an upload and then a request, or two uploads
IngestScripts ==
    { <<u>> : u \in UploadEvents }
    \cup { <<u, q>> : u \in ItemUploadEvents, q \in IngestQueries }
    \cup { <<u1, u2>> : u1 \in ReUploadEvents, u2 \in ReUploadEvents }

IngestFaults ==
    {"none", "get_object", "put_processed", "put_embeddings", "create_table", "put_item"}

Times == {1, 2}

IngestEmbedOutcomes == { [kind |-> "transport_error"], [kind |-> "vector", vec |-> Vec(<<3, 4>>)] }

\* The similarity of two fallback embeddings exceeds the integers of the
\* checker: the embedding service fails during an ingestion only when no
\* request follows it.
EmbedOutcomesBefore(events) ==
    IF \A i \in 1..Len(events) : IsUpload(events[i]) THEN IngestEmbedOutcomes
    ELSE { o \in IngestEmbedOutcomes : o.kind = "vector" }

InitIngest ==
    /\ variant \in Variants
    /\ tables \in { {}, {FAQ_TABLE, QUERY_LOG_TABLE} }
    /\ faqTable = <<>>
    /\ snapshots = <<>>
    /\ processed = <<>>
    /\ queryLog = EmptyTable
    /\ inbox \in IngestScripts
    /\ pc = "idle"
    /\ body = [query |-> ""]
    /\ faq_matches = <<>>
    /\ query_embedding = NoEmbedding
    /\ search_results = <<>>
    /\ response_text = ""
    /\ source = None
    /\ query_id = None
    /\ result = NoResult
    /\ trace = NoTrace
    /\ resolved = {}
    /\ call = NoCall
    /\ memo = {}

\* the latest time at which an object was written
LatestWrite == IF Len(processed) = 0 THEN 1 ELSE processed[Len(processed)].modified

\* the keys of the objects of `after` that `before` does not hold
NewKeys(before, after) ==
    [k \in 1..Cardinality({ i \in 1..Len(after) :
                              \A j \in 1..Len(before) : before[j] # after[i] }) |->
        after[CHOOSE i \in 1..Len(after) :
                 /\ \A j \in 1..Len(before) : before[j] # after[i]
                 /\ Cardinality({ h \in 1..i :
                                    \A j \in 1..Len(before) : before[j] # after[h] }) = k].key]

\* process_document handles the upload at the head of the inbox
ProcessDocument ==
    /\ pc \in {"idle", "done"}
    /\ Len(inbox) > 0
    /\ IsUpload(Head(inbox))
    /\ \E embed \in EmbedOutcomesBefore(inbox), fault \in IngestFaults, fail_at \in {1, 2},
          now \in { t \in Times : t >= LatestWrite /\ t <= Cardinality(memo) + 1 } :
       \E env \in { [embed |-> embed, fault |-> fault, fail_at |-> fail_at, now |-> now,
                     seed |-> 10 * Cardinality(memo)] } :
       \E out \in { process_document([tables |-> tables, faqTable |-> faqTable,
                                      snapshots |-> snapshots, processed |-> processed],
                                     RawBucket, Head(inbox), env) } :
          /\ (fault = "put_item" \/ fail_at = 1)
          /\ tables' = out.st.tables
          /\ faqTable' = out.st.faqTable
          /\ snapshots' = out.st.snapshots
          /\ processed' = out.st.processed
          /\ call' = [fn |-> "process_document", event |-> Head(inbox), env |-> env,
                      chunks |-> out.chunks, out |-> out.result,
                      written |-> NewKeys(processed, out.st.processed)
                                      \o NewKeys(snapshots, out.st.snapshots)]
          /\ memo' = memo \cup { [nth |-> Cardinality(memo) + 1,
                                  statusCode |-> out.result.statusCode] }
    /\ inbox' = Tail(inbox)
    /\ UNCHANGED <<variant, queryLog, pc, body, faq_matches, query_embedding,
                   search_results, response_text, source, query_id, result, trace, resolved>>

NextIngest ==
    \/ ProcessDocument
    \/ Next

SpecIngest == InitIngest /\ [][NextIngest]_vars

\* the chunks returned by the matchers of the running resolution
MatchedChunks ==
    { faq_matches[k] : k \in 1..Len(faq_matches) }
    \cup { search_results[k].item : k \in 1..Len(search_results) }

\* C21: no chunk whose question or answer is empty is returned by the lexical
\* matcher or by a semantic search, so no response is built from such a chunk.
NoEmptyChunkMatched ==
    \A chunk \in MatchedChunks :
        Get(chunk, "question", "") # "" /\ Get(chunk, "answer", "") # ""

\* the only ingestion so far stored the one item of its document, and every
\* collaborator answered
OneItemIngested ==
    /\ call.fn = "process_document"
    /\ Cardinality(memo) = 1
    /\ call.env.fault = "none"
    /\ call.out.statusCode = 200
    /\ Len(call.chunks) = 1

\* a request for exactly the question of the ingested item was answered, and
\* the scan of the lexical matcher completed
QuestionAsked ==
    /\ pc = "done"
    /\ trace.lexical = 1
    /\ trace.lexFault = 0
    /\ Get(trace.event, "query", "") = call.chunks[1].question

\* C22: after the ingestion of a document with one section that holds one
\* question/answer item, the chunk store holds exactly one chunk, and a
\* request whose query is exactly the item's question is resolved by the
\* lexical tier with the stored answer, verbatim.
EndToEndLexical ==
    OneItemIngested =>
        /\ Len(faqTable) = 1
        /\ faqTable[1].answer = call.chunks[1].answer
        /\ QuestionAsked =>
              /\ result.statusCode = 200
              /\ trace.tier = "lexical"
              /\ ResponseText = call.chunks[1].answer

\* the document of the upload could be read and the chunker ran on it
DocumentChunked(event, env) ==
    /\ "Records" \in DOMAIN event
    /\ StartsWith(event.Records[1].s3.object.key, RAW_PREFIX)
    /\ event.Records[1].s3.object.key \in DOMAIN RawBucket
    /\ RawBucket[event.Records[1].s3.object.key].json
    /\ env.fault # "get_object"

ChunkerYieldedNothing ==
    /\ call.fn = "process_document"
    /\ DocumentChunked(call.event, call.env)
    /\ chunk_document(RawBucket[call.event.Records[1].s3.object.key].content, 0) = <<>>

UploadHandled == Len(inbox) > 0 /\ IsUpload(Head(inbox)) /\ inbox' = Tail(inbox)

\* C24: when the chunker yields no chunks for a document, the ingestion
\* writes nothing to the processed store, the snapshot store or the FAQ
\* table, and its outcome is not an error.
NothingToIndexIsNoError ==
    [][(UploadHandled /\ ChunkerYieldedNothing') =>
            /\ UNCHANGED <<processed, snapshots, faqTable>>
            /\ call'.out.statusCode = 200]_vars

EntryOf(items, id) == { items[i] : i \in { j \in 1..Len(items) : items[j].id = id } }

\* C25: once a chunk is stored in the FAQ table under an id, no later
\* ingestion changes the entry stored under that id.
StoredEntriesNeverChange ==
    [][\A i \in 1..Len(faqTable) :
            EntryOf(faqTable', faqTable[i].id) = {faqTable[i]}]_vars

\* C26: a step of a query resolution leaves the contents of the FAQ table and
\* of the snapshot store unchanged, and a resolution appends to the query log
\* at most once: the log changes only in the first logging call of the
\* resolution, by at most one entry.
ResolutionsOnlyAppendToLog ==
    [][/\ faqTable' = faqTable
       /\ snapshots' = snapshots
       /\ trace'.log <= 1
       /\ Cardinality(DOMAIN queryLog') <= Cardinality(DOMAIN queryLog) + 1
       /\ queryLog' # queryLog => (trace.log = 0 /\ trace'.log = 1)]_vars

\* two requests were resolved over populated stores and each was logged
TwoResolutionsLogged ==
    /\ Len(inbox) = 0
    /\ pc = "done"
    /\ Cardinality(DOMAIN queryLog) = 2
    /\ Len(faqTable) > 0
    /\ Len(snapshots) > 0

\* the first ingestion of a run answered with a count of FAQ items
FirstIngestionCounted ==
    /\ call.fn = "process_document"
    /\ Cardinality(memo) = 1
    /\ call.out.statusCode = 200
    /\ Len(call.chunks) > 0

\* C33: the faqItemsAdded of a successful ingestion response is the number of
\* entries the ingestion wrote to the FAQ table, also when the table update
\* failed part-way through the chunks.  (The table is empty before the first
\* ingestion, so the entries written are the entries of the table.)
FaqItemsAddedCountsWrites ==
    FirstIngestionCounted => call.out.body.faqItemsAdded = Len(faqTable)

-----------------------------------------------------------------------------
(* The bucket notification: S3 sends an object-created event for an object   *)
(* that an ingestion wrote, when the notification filter lets the key pass.   *)

InitChain ==
    /\ variant \in Variants
    /\ tables \in { {}, {FAQ_TABLE, QUERY_LOG_TABLE} }
    /\ faqTable = <<>>
    /\ snapshots = <<>>
    /\ processed = <<>>
    /\ queryLog = EmptyTable
    /\ inbox \in { <<S3Event(key)>> : key \in DOMAIN RawBucket \cup {"notes.txt"} }
    /\ pc = "idle"
    /\ body = [query |-> ""]
    /\ faq_matches = <<>>
    /\ query_embedding = NoEmbedding
    /\ search_results = <<>>
    /\ response_text = ""
    /\ source = None
    /\ query_id = None
    /\ result = NoResult
    /\ trace = NoTrace
    /\ resolved = {}
    /\ call = NoCall
    /\ memo = {}

\* S3 sends the event for the next object the latest ingestion wrote
S3Notify ==
    /\ call.fn = "process_document"
    /\ Len(call.written) > 0
    /\ inbox' = Append(inbox, S3Event(Head(call.written)))
    /\ call' = [call EXCEPT !.written = Tail(@)]
    /\ UNCHANGED <<variant, tables, faqTable, snapshots, processed, queryLog, pc, body,
                   faq_matches, query_embedding, search_results, response_text, source,
                   query_id, result, trace, resolved, memo>>

NextChain ==
    \/ ProcessDocument
    \/ S3Notify

SpecChain == InitChain /\ [][NextChain]_vars

\* the event at the head of the inbox is for a key outside the raw prefix
OutsideRawPrefix ==
    /\ Len(inbox) > 0
    /\ "Records" \in DOMAIN Head(inbox)
    /\ ~StartsWith(Head(inbox).Records[1].s3.object.key, RAW_PREFIX)

\* C34: an object-created event for a key outside the raw prefix is answered
\* without a read or a write; the objects an ingestion writes are outside the
\* raw prefix, so their events start no further ingestion, and the chain that
\* one upload starts ends after the upload and the events of its two objects.
IngestionChainEnds ==
    [][/\ (OutsideRawPrefix /\ memo' # memo) =>
              /\ <<tables', faqTable', snapshots', processed'>>
                     = <<tables, faqTable, snapshots, processed>>
              /\ call'.chunks = <<>>
              /\ call'.written = <<>>
              /\ call'.out.statusCode = 200
       /\ call'.fn = "process_document" =>
              \A k \in 1..Len(call'.written) : ~StartsWith(call'.written[k], RAW_PREFIX)
       /\ Len(processed') <= 1
       /\ Len(snapshots') <= 1
       /\ Cardinality(memo') <= 3]_vars

\* an upload was ingested, S3 sent the events of the two objects written, and
\* both events were answered: nothing is left to handle
ChainEnded ==
    /\ Cardinality(memo) = 3
    /\ Len(inbox) = 0
    /\ Len(processed) = 1
    /\ Len(snapshots) = 1
    /\ call.fn = "process_document"
    /\ call.written = <<>>

-----------------------------------------------------------------------------
(* Feedback: process_feedback of the query handler and of the feedback       *)
(* processor.  A JSON value of a request is [kind, size]: kind is "dict",    *)
(* "str", "list" or "int", size the number of its members or characters.     *)

FeedbackResponse(statusCode, response_body) == [statusCode |-> statusCode, body |-> response_body]

NoFeedback == [kind |-> "dict", size |-> 0]

\* not feedback or not isinstance(feedback, dict)
IsNonEmptyObject(value) == value.kind = "dict" /\ value.size > 0

\* get_item, then put_item of the item with the feedback added; `fault` is
\* "none", "get_item" or "put_item"
StoreFeedback(log, exists, id, feedback, now, fault) ==
    IF ~exists \/ fault = "get_item"
    THEN [log |-> log, result |-> FeedbackResponse(500, [error |-> "Error processing feedback"])]
    ELSE IF id \notin DOMAIN log
    THEN [log |-> log,
          result |-> FeedbackResponse(404, [error |-> "Query with ID " \o id \o " not found"])]
    ELSE IF fault = "put_item"
    THEN [log |-> log, result |-> FeedbackResponse(500, [error |-> "Error processing feedback"])]
    ELSE [log |-> PutItem(log, id,
                          [feedback |-> feedback, feedback_timestamp |-> now] @@ log[id]),
          result |-> FeedbackResponse(200, [message |-> "Feedback recorded successfully",
                                            query_id |-> id])]

\* process_feedback of the query handler: [log, result]
process_feedback(log, exists, event, now, fault) ==
    IF ParseBody(event).exc
    THEN [log |-> log,
          result |-> FeedbackResponse(500, [error |-> "Error processing feedback request"])]
    ELSE IF Get(ParseBody(event).val, "query_id", "") = ""
    THEN [log |-> log, result |-> FeedbackResponse(400, [error |-> "query_id parameter is required"])]
    ELSE IF ~IsNonEmptyObject(Get(ParseBody(event).val, "feedback", NoFeedback))
    THEN [log |-> log,
          result |-> FeedbackResponse(400, [error |-> "feedback must be a non-empty object"])]
    ELSE StoreFeedback(log, exists, ParseBody(event).val.query_id,
                       ParseBody(event).val.feedback, now, fault)

\* table.update_item with a SET expression: the item is created when no item
\* has the key
UpdateItem(table, key, attributes) ==
    PutItem(table, key,
            attributes @@ (IF key \in DOMAIN table THEN table[key] ELSE [query_id |-> key]))

\* the check before the update: get_item answered with an item that has no
\* user_id; an exception of get_item is logged and the user id left out
user_id_absent(log, id, fault) ==
    /\ fault # "get_item"
    /\ id \in DOMAIN log
    /\ "user_id" \notin DOMAIN log[id]

\* the attributes the SET expression assigns: rating and timestamp, the text
\* when given, and the user id when given and the check found none
update_expression(fields, now, add_user_id) ==
    [feedback_rating |-> fields.rating, feedback_timestamp |-> now]
    @@ Optional("feedback_text", Get(fields, "feedback_text", None))
    @@ (IF add_user_id THEN Optional("user_id", Get(fields, "user_id", None)) ELSE EmptyTable)

\* process_feedback of the feedback processor: [log, result]; `fault` is
\* "none", "get_item" (swallowed) or "put_item" (update_item raised)
process_feedback_processor(log, exists, event, now, fault) ==
    IF ParseBody(event).exc
    THEN [log |-> log, result |-> FeedbackResponse(500, [error |-> "Error processing feedback"])]
    ELSE IF Get(ParseBody(event).val, "query_id", "") = ""
    THEN [log |-> log, result |-> FeedbackResponse(400, [error |-> "query_id parameter is required"])]
    ELSE IF "rating" \notin DOMAIN ParseBody(event).val
    THEN [log |-> log, result |-> FeedbackResponse(400, [error |-> "rating parameter is required"])]
    ELSE IF ~exists \/ fault = "put_item"
    THEN [log |-> log, result |-> FeedbackResponse(500, [error |-> "Error processing feedback"])]
    ELSE [log |-> UpdateItem(log, ParseBody(event).val.query_id,
                     update_expression(ParseBody(event).val, now,
                         user_id_absent(log, ParseBody(event).val.query_id, fault))),
          result |-> FeedbackResponse(200, [message |-> "Feedback received successfully",
                                            query_id |-> ParseBody(event).val.query_id])]

\* datetime.now().isoformat() at the n-th second
IsoFormat(n) == "2024-01-01T00:00:0" \o DecStr(n)

FeedbackRoute == [httpMethod |-> "POST", path |-> "/feedback"]

Helpful == [kind |-> "dict", size |-> 1]

FeedbackEvents ==
    { FeedbackRoute @@ [query_id |-> "query_20240101000000_0a1b2c3d", feedback |-> Helpful,
                        rating |-> 5],
      FeedbackRoute @@ [query_id |-> "query_20231231235959_00000000", feedback |-> Helpful,
                        rating |-> 1],
      FeedbackRoute @@ [feedback |-> Helpful, rating |-> 5],
      FeedbackRoute @@ [query_id |-> "query_20240101000000_0a1b2c3d",
                        feedback |-> [kind |-> "str", size |-> 5]],
      FeedbackRoute @@ [query_id |-> "query_20240101000000_0a1b2c3d", feedback |-> NoFeedback,
                        rating |-> 3, feedback_text |-> "thanks", user_id |-> "u2"],
      FeedbackRoute @@ [body |-> None],
      FeedbackRoute @@ [body |-> "{}"],
      [path |-> "/feedback", query_id |-> "query_20240101000000_0a1b2c3d",
       feedback |-> Helpful, rating |-> 5] }

\* feedback alone, or a request and then feedback
FeedbackScripts ==
    { <<f>> : f \in FeedbackEvents }
    \cup { <<q, f>> : q \in SeqEvents, f \in FeedbackEvents }

FeedbackFaults == {"none", "get_item", "put_item"}

InitFeedback ==
    /\ variant \in Variants
    /\ tables \in { {FAQ_TABLE}, {FAQ_TABLE, QUERY_LOG_TABLE} }
    /\ faqTable = <<ItemSend>>
    /\ snapshots \in SnapshotSets \ { <<>> }
    /\ processed = <<>>
    /\ queryLog = EmptyTable
    /\ inbox \in FeedbackScripts
    /\ pc = "idle"
    /\ body = [query |-> ""]
    /\ faq_matches = <<>>
    /\ query_embedding = NoEmbedding
    /\ search_results = <<>>
    /\ response_text = ""
    /\ source = None
    /\ query_id = None
    /\ result = NoResult
    /\ trace = NoTrace
    /\ resolved = {}
    /\ call = NoCall
    /\ memo = {}

\* the call record of a feedback request handled by `fn` with outcome `out`
FeedbackCall(fn, fault, out) ==
    [fn |-> fn, event |-> Head(inbox), fault |-> fault,
     exists |-> QUERY_LOG_TABLE \in tables,
     known |-> /\ ~ParseBody(Head(inbox)).exc
               /\ Get(ParseBody(Head(inbox)).val, "query_id", "") \in DOMAIN queryLog,
     changed |-> out.log # queryLog,
     out |-> out.result]

\* lambda_handler of the query handler passes the request to process_feedback
HandlerFeedback ==
    /\ pc \in {"idle", "done"}
    /\ Len(inbox) > 0
    /\ IsFeedback(Head(inbox))
    /\ \E fault \in FeedbackFaults, now \in Times :
       \E out \in { process_feedback(queryLog, QUERY_LOG_TABLE \in tables, Head(inbox),
                                     IsoFormat(now), fault) } :
          /\ queryLog' = out.log
          /\ call' = FeedbackCall("process_feedback", fault, out)
          /\ memo' = memo \cup { [nth |-> Cardinality(memo) + 1,
                                  statusCode |-> out.result.statusCode] }
    /\ inbox' = Tail(inbox)
    /\ UNCHANGED <<variant, tables, faqTable, snapshots, processed, pc, body, faq_matches,
                   query_embedding, search_results, response_text, source, query_id,
                   result, trace, resolved>>

\* the feedback processor function serves the request
FeedbackProcessor ==
    /\ pc \in {"idle", "done"}
    /\ Len(inbox) > 0
    /\ Get(Head(inbox), "path", None) = "/feedback"
    /\ \E fault \in FeedbackFaults, now \in Times :
       \E out \in { process_feedback_processor(queryLog, QUERY_LOG_TABLE \in tables,
                                               Head(inbox), IsoFormat(now), fault) } :
          /\ queryLog' = out.log
          /\ call' = FeedbackCall("feedback_processor", fault, out)
          /\ memo' = memo \cup { [nth |-> Cardinality(memo) + 1,
                                  statusCode |-> out.result.statusCode] }
    /\ inbox' = Tail(inbox)
    /\ UNCHANGED <<variant, tables, faqTable, snapshots, processed, pc, body, faq_matches,
                   query_embedding, search_results, response_text, source, query_id,
                   result, trace, resolved>>

NextFeedback ==
    \/ HandlerFeedback
    \/ FeedbackProcessor
    \/ Next

SpecFeedback == InitFeedback /\ [][NextFeedback]_vars

\* the fields a feedback request carries
FeedbackFields(event) == IF ParseBody(event).exc THEN EmptyTable ELSE ParseBody(event).val

\* query_id is missing, or feedback is not a non-empty object
Malformed(event) ==
    \/ Get(FeedbackFields(event), "query_id", "") = ""
    \/ ~IsNonEmptyObject(Get(FeedbackFields(event), "feedback", NoFeedback))

\* process_feedback of the query handler ran with the log table present and
\* no call to it failing
FeedbackHandled ==
    /\ call.fn = "process_feedback"
    /\ call.exists
    /\ call.fault = "none"

\* C28: a malformed feedback request (no query_id, or feedback that is not a
\* non-empty object) is answered with a client error, a request for a
\* query_id that has no log entry is answered not-found, and in both cases
\* the log is left as it was.
FeedbackRejected ==
    FeedbackHandled =>
        /\ Malformed(call.event) => (call.out.statusCode = 400 /\ ~call.changed)
        /\ (~Malformed(call.event) /\ ~call.known) =>
               (call.out.statusCode = 404 /\ ~call.changed)

\* C29: an entry of the query log is created only by the logging step of a
\* resolution: handling feedback never adds an entry.
EntriesCreatedByLogging ==
    [][DOMAIN queryLog' # DOMAIN queryLog => (pc = "log" /\ trace'.log = trace.log + 1)]_vars

-----------------------------------------------------------------------------
(* Concurrent feedback.  Two invocations of the feedback processor serve the  *)
(* two requests of the inbox at the same time.  An invocation reads the       *)
(* record (get_item) and later writes it (update_item); the table orders the  *)
(* calls it receives, and any call of one invocation may fall between the     *)
(* two calls of the other.  `call.at[p]` is the position of invocation p and  *)
(* `call.add_user_id[p]` what its check found.                                *)

AskedId == "query_20240101000000_0a1b2c3d"

\* a feedback request for the asked query from `user_id`
FeedbackFrom(user_id, rating) ==
    FeedbackRoute @@ [query_id |-> AskedId, rating |-> rating]
                  @@ Optional("user_id", user_id)

\* the record the logging step wrote for the asked query
LoggedBy(user_id) ==
    [query_id |-> AskedId, query |-> "how do i send zec"] @@ Optional("user_id", user_id)

InitRace ==
    /\ variant = "query_processor"
    /\ tables = {FAQ_TABLE, QUERY_LOG_TABLE}
    /\ faqTable = <<>>
    /\ snapshots = <<>>
    /\ processed = <<>>
    /\ queryLog \in { EmptyTable }
                    \cup { PutItem(EmptyTable, AskedId, LoggedBy(u)) : u \in {None, "u0"} }
    /\ inbox \in { <<FeedbackFrom(a, 5), FeedbackFrom(b, 1)>> :
                      a \in {None, "u1"}, b \in {None, "u1", "u2"} }
    /\ pc = "idle"
    /\ body = [query |-> ""]
    /\ faq_matches = <<>>
    /\ query_embedding = NoEmbedding
    /\ search_results = <<>>
    /\ response_text = ""
    /\ source = None
    /\ query_id = None
    /\ result = NoResult
    /\ trace = NoTrace
    /\ resolved = {}
    /\ call = [fn |-> "feedback_processor", at |-> <<"get_item", "get_item">>,
               add_user_id |-> <<FALSE, FALSE>>]
    /\ memo = {}

\* invocation p checks whether the record has a user_id
CheckUserId(p) ==
    /\ call.fn = "feedback_processor"
    /\ "at" \in DOMAIN call
    /\ call.at[p] = "get_item"
    /\ \E fault \in {"none", "get_item"} :
          call' = [call EXCEPT
                     !.at[p] = "update_item",
                     !.add_user_id[p] =
                         /\ "user_id" \in DOMAIN inbox[p]
                         /\ user_id_absent(queryLog, inbox[p].query_id, fault)]
    /\ UNCHANGED <<variant, tables, faqTable, snapshots, processed, queryLog, inbox, pc,
                   body, faq_matches, query_embedding, search_results, response_text,
                   source, query_id, result, trace, resolved, memo>>

\* invocation p updates the record with what its check found
UpdateFeedback(p) ==
    /\ call.fn = "feedback_processor"
    /\ "at" \in DOMAIN call
    /\ call.at[p] = "update_item"
    /\ \E now \in Times :
          queryLog' = UpdateItem(queryLog, inbox[p].query_id,
                                 update_expression(inbox[p], IsoFormat(now),
                                                   call.add_user_id[p]))
    /\ call' = [call EXCEPT !.at[p] = "done"]
    /\ memo' = memo \cup { [nth |-> Cardinality(memo) + 1, statusCode |-> 200] }
    /\ UNCHANGED <<variant, tables, faqTable, snapshots, processed, inbox, pc, body,
                   faq_matches, query_embedding, search_results, response_text, source,
                   query_id, result, trace, resolved>>

NextRace ==
    \/ \E p \in {1, 2} : CheckUserId(p)
    \/ \E p \in {1, 2} : UpdateFeedback(p)

SpecRace == InitRace /\ [][NextRace]_vars

\* C36: the feedback processor never replaces a user_id a record of the query
\* log already has, also when two feedback requests for the same query_id
\* with different user ids are served at the same time.
UserIdNeverReplaced ==
    [][\A id \in DOMAIN queryLog :
          "user_id" \in DOMAIN queryLog[id] =>
              /\ id \in DOMAIN queryLog'
              /\ "user_id" \in DOMAIN queryLog'[id]
              /\ queryLog'[id].user_id = queryLog[id].user_id]_vars

-----------------------------------------------------------------------------
(* Concurrent resolutions.  A request is resolved alone; the stores are put   *)
(* back as they were and the same request is resolved again while other      *)
(* resolutions run: every step another resolution takes on the shared state  *)
(* (creating a missing table, appending its log entry) may fall between any  *)
(* two steps of this one.  `call` keeps the record of the resolution alone.  *)

\* the status, text and source a response carries
Answer(response) ==
    IF response.statusCode = 200
    THEN <<200, response.body.response, response.body.source>>
    ELSE <<response.statusCode>>

OtherId == "query_20240101000002_5e5e5e5e"

InitConcurrent ==
    /\ variant \in Variants
    /\ tables \in { {}, {FAQ_TABLE}, {FAQ_TABLE, QUERY_LOG_TABLE} }
    /\ faqTable = (IF FAQ_TABLE \in tables THEN <<ItemSend, ItemBackup, ItemFees, ItemAbout>>
                   ELSE <<>>)
    /\ snapshots \in SnapshotSets \ { <<>> }
    /\ processed = <<>>
    /\ queryLog = EmptyTable
    /\ inbox \in { <<e>> : e \in SeqEvents }
    /\ pc = "idle"
    /\ body = [query |-> ""]
    /\ faq_matches = <<>>
    /\ query_embedding = NoEmbedding
    /\ search_results = <<>>
    /\ response_text = ""
    /\ source = None
    /\ query_id = None
    /\ result = NoResult
    /\ trace = NoTrace
    /\ resolved = {}
    /\ call = [fn |-> None, tables |-> tables]
    /\ memo = {}

\* what the collaborators answered to the calls recorded in the trace t
Collaborators(t, embedding) ==
    [lexical |-> t.lexical > 0, lexFault |-> t.lexFault,
     embed |-> t.embed > 0, embedFailed |-> t.embedFailed, embedding |-> embedding,
     primary |-> t.primary > 0, primFault |-> t.primFault,
     secondary |-> t.secondary > 0, secFault |-> t.secFault,
     generate |-> t.generate > 0, genFailed |-> t.genFailed, genText |-> t.genText]

\* the collaborators answer the calls of this resolution as they answered
\* the same calls of the resolution alone
SameCollaborators(alone, among, stored) ==
    /\ (alone.lexical /\ among.lexical /\ stored) => alone.lexFault = among.lexFault
    /\ (alone.embed /\ among.embed)
           => (alone.embedFailed = among.embedFailed /\ alone.embedding = among.embedding)
    /\ (alone.primary /\ among.primary /\ stored) => alone.primFault = among.primFault
    /\ (alone.secondary /\ among.secondary) => alone.secFault = among.secFault
    /\ (alone.generate /\ among.generate)
           => (alone.genFailed = among.genFailed /\ alone.genText = among.genText)

AgreesWithAlone ==
    \/ call.fn = None
    \/ SameCollaborators(call.answered, Collaborators(trace, query_embedding),
                         FAQ_TABLE \in call.tables)

\* a step of the resolution, alone or among the others
Resolve ==
    /\ Next
    /\ AgreesWithAlone'

\* the resolution alone has returned: its outcome is kept, the stores are put
\* back and the request is submitted again
Resubmit ==
    /\ call.fn = None
    /\ pc = "done"
    /\ inbox = <<>>
    /\ call' = [fn |-> "query_knowledge_base", tables |-> call.tables,
                event |-> trace.event,
                answered |-> Collaborators(trace, query_embedding),
                answer |-> Answer(result)]
    /\ tables' = call.tables
    /\ queryLog' = EmptyTable
    /\ inbox' = <<trace.event>>
    /\ pc' = "idle"
    /\ body' = [query |-> ""]
    /\ faq_matches' = <<>>
    /\ query_embedding' = NoEmbedding
    /\ search_results' = <<>>
    /\ response_text' = ""
    /\ source' = None
    /\ query_id' = None
    /\ result' = NoResult
    /\ trace' = NoTrace
    /\ resolved' = {}
    /\ UNCHANGED <<variant, faqTable, snapshots, processed, memo>>

\* another resolution starts: check_or_create_table for both tables
OtherReceive ==
    /\ call.fn = "query_knowledge_base"
    /\ \E o1 \in PutOutcomes, o2 \in PutOutcomes :
          tables' = check_or_create_table(
                        check_or_create_table(tables, FAQ_TABLE, o1), QUERY_LOG_TABLE, o2)
    /\ tables' # tables
    /\ UNCHANGED <<variant, faqTable, snapshots, processed, queryLog, inbox, pc, body,
                   faq_matches, query_embedding, search_results, response_text, source,
                   query_id, result, trace, resolved, call, memo>>

\* another resolution logs its query
OtherLogQuery ==
    /\ call.fn = "query_knowledge_base"
    /\ \E put \in PutOutcomes :
          queryLog' = log_query(queryLog, QUERY_LOG_TABLE \in tables, "seed phrase",
                                default_response, <<>>, None, None, put, OtherId).log
    /\ queryLog' # queryLog
    /\ UNCHANGED <<variant, tables, faqTable, snapshots, processed, inbox, pc, body,
                   faq_matches, query_embedding, search_results, response_text, source,
                   query_id, result, trace, resolved, call, memo>>

NextConcurrent ==
    \/ Resolve
    \/ Resubmit
    \/ OtherReceive
    \/ OtherLogQuery

SpecConcurrent == InitConcurrent /\ [][NextConcurrent]_vars

\* the request was resolved a second time, among other resolutions
ResolvedAmongOthers ==
    /\ call.fn = "query_knowledge_base"
    /\ pc = "done"
    /\ inbox = <<>>

\* C27: for the same stores and the same collaborator behaviour, a resolution
\* interleaved in any way with other resolutions returns the status, text and
\* source that the resolution alone returned.
ResolutionsIndependent ==
    ResolvedAmongOthers => Answer(result) = call.answer

\* a request was answered from a snapshot while another resolution created the
\* log table and logged: both log entries are in the table
InterleavedAndAnswered ==
    /\ ResolvedAmongOthers
    /\ QUERY_LOG_TABLE \notin call.tables
    /\ result.statusCode = 200
    /\ query_id # None
    /\ DOMAIN queryLog = {OtherId, query_id}

-----------------------------------------------------------------------------
(* The CloudFormation custom resource handler of the bucket notification.    *)

SUCCESS == "SUCCESS"
FAILED == "FAILED"

\* cfnresponse.send: the response body that is PUT to the ResponseURL;
\* `url_outcome` is "ok" or "error" (urlopen raised, which is logged)
send(event, context, responseStatus, responseData, physicalResourceId, url_outcome) ==
    [Status |-> responseStatus,
     Reason |-> "See the details in CloudWatch Log Stream: " \o context.log_stream_name,
     PhysicalResourceId |-> IF physicalResourceId = "" THEN context.log_stream_name
                            ELSE physicalResourceId,
     StackId |-> event.StackId,
     RequestId |-> event.RequestId,
     LogicalResourceId |-> event.LogicalResourceId,
     NoEcho |-> FALSE,
     Data |-> responseData,
     url |-> event.ResponseURL,
     delivered |-> url_outcome = "ok"]

\* the notification configuration for the function and the prefix
NotificationConfig(lambda_arn, prefix) ==
    [LambdaFunctionConfigurations |->
        << [LambdaFunctionArn |-> lambda_arn, Events |-> <<"s3:ObjectCreated:*">>]
           @@ (IF prefix = "" THEN EmptyTable
               ELSE [Filter |-> [Key |-> [FilterRules |->
                                    <<[Name |-> "prefix", Value |-> prefix]>>]]]) >>]

\* a plausible slip: a clean-up error fails the Delete request
DeleteOnErrorFail == FAILED

\* except Exception: logger.warning(...)  # Don't fail on cleanup errors
DeleteOnError == SUCCESS

\* handler: [puts, sent]: the configurations handed to
\* put_bucket_notification_configuration and the responses sent;
\* `put_outcome` is "ok" or "error" (the call raised)
handler(event, context, put_outcome, url_outcome) ==
    IF event.RequestType \in {"Create", "Update"}
    THEN [puts |-> << [Bucket |-> event.ResourceProperties.BucketName,
                       NotificationConfiguration |->
                           NotificationConfig(event.ResourceProperties.LambdaArn,
                                              Get(event.ResourceProperties, "EventPrefix", "")),
                       raised |-> put_outcome = "error"] >>,
          sent |-> << IF put_outcome = "error"
                      THEN send(event, context, FAILED,
                                [Error |-> "put_bucket_notification_configuration failed"],
                                Get(event, "PhysicalResourceId", context.log_stream_name),
                                url_outcome)
                      ELSE send(event, context, SUCCESS,
                                [Message |-> "S3 event notification configured successfully"],
                                Get(event, "PhysicalResourceId", context.log_stream_name),
                                url_outcome) >>]
    ELSE IF event.RequestType = "Delete"
    THEN [puts |-> << [Bucket |-> event.ResourceProperties.BucketName,
                       NotificationConfiguration |-> EmptyTable,
                       raised |-> put_outcome = "error"] >>,
          sent |-> << IF put_outcome = "error" /\ DeleteOnError = FAILED
                      THEN send(event, context, FAILED, [Error |-> "clean-up failed"],
                                Get(event, "PhysicalResourceId", context.log_stream_name),
                                url_outcome)
                      ELSE send(event, context, SUCCESS,
                                [Message |-> "S3 event notification removed successfully"],
                                Get(event, "PhysicalResourceId", context.log_stream_name),
                                url_outcome) >>]
    ELSE [puts |-> <<>>,
          sent |-> << send(event, context, SUCCESS, EmptyTable,
                           Get(event, "PhysicalResourceId", context.log_stream_name),
                           url_outcome) >>]

CfnRequest(request_type) ==
    [RequestType |-> request_type,
     ResponseURL |-> "https://cloudformation-custom-resource-response.example/1",
     StackId |-> "arn:aws:cloudformation:us-east-1:1:stack/palma/1",
     RequestId |-> "r-1",
     LogicalResourceId |-> "S3EventNotification"]

BucketProperties ==
    { [BucketName |-> "palma-wallet-knowledge-base", LambdaArn |-> "arn:aws:lambda:fn"],
      [BucketName |-> "palma-wallet-knowledge-base", LambdaArn |-> "arn:aws:lambda:fn",
       EventPrefix |-> ""],
      [BucketName |-> "palma-wallet-knowledge-base", LambdaArn |-> "arn:aws:lambda:fn",
       EventPrefix |-> "raw-documents/"] }

\* the requests CloudFormation makes for the resource: a Create carries no
\* PhysicalResourceId, an Update or a Delete carries the one returned before
CfnEvents ==
    { CfnRequest("Create") @@ [ResourceProperties |-> p] : p \in BucketProperties }
    \cup { CfnRequest(t) @@ [ResourceProperties |-> p, PhysicalResourceId |-> id] :
             t \in {"Update", "Delete"}, p \in BucketProperties,
             id \in {"2024/01/01/[$LATEST]a", "notification-1"} }

CfnContexts ==
    { [log_stream_name |-> "2024/01/01/[$LATEST]a"],
      [log_stream_name |-> "2024/01/02/[$LATEST]b"] }

InitCfn ==
    /\ IdleHandler
    /\ variant = "query_lambda"
    /\ faqTable = <<>>
    /\ snapshots = <<>>
    /\ call = NoCall
    /\ memo = {}
    /\ processed = <<>>

\* CloudFormation invokes the handler with a request
HandlerCall ==
    /\ call = NoCall
    /\ \E event \in CfnEvents, context \in CfnContexts,
          put_outcome \in PutOutcomes, url_outcome \in PutOutcomes :
          call' = [fn |-> "handler", event |-> event, context |-> context,
                   put_outcome |-> put_outcome, url_outcome |-> url_outcome,
                   out |-> handler(event, context, put_outcome, url_outcome)]
    /\ UNCHANGED <<handlerVars, processed, faqTable, snapshots, memo>>

NextCfn == HandlerCall

SpecCfn == InitCfn /\ [][NextCfn]_vars

\* C37: for every Create, Update or Delete request the handler sends exactly
\* one response to CloudFormation: SUCCESS when the notification was
\* configured, SUCCESS for a Delete also when removing the notification
\* raised, FAILED when configuring the notification raised.
OneResponsePerRequest ==
    call.fn = "handler" =>
        /\ Len(call.out.sent) = 1
        /\ call.out.sent[1].RequestId = call.event.RequestId
        /\ call.out.sent[1].Status =
               (IF call.event.RequestType = "Delete" \/ call.put_outcome = "ok"
                THEN SUCCESS ELSE FAILED)

\* a Delete whose clean-up raised was answered with SUCCESS
DeleteAnsweredDespiteError ==
    /\ call.fn = "handler"
    /\ call.event.RequestType = "Delete"
    /\ call.put_outcome = "error"
    /\ call.out.puts[1].raised
    /\ call.out.sent[1].Status = SUCCESS

====
